---- MODULE Spec2Model ----
(***************************************************************************)
(* A model of the reference decoder of the Lomont tiny decompression       *)
(* library (src/ReferenceDecoder/Decompressor.c and Decompressor.h).       *)
(*                                                                         *)
(* Conventions.                                                            *)
(*  - A C function that mutates a struct through a pointer and returns a   *)
(*    value is an operator that takes the struct and returns a record      *)
(*    holding the struct as the function leaves it and the returned value. *)
(*  - A uint32_t is written as the int32 with the same 32-bit pattern      *)
(*    (two's complement): TLC's integers are 32 bits wide and signed, so   *)
(*    0xFFFFFFFF is -1 and a value with bit 31 set is negative.  Bit31,    *)
(*    Low31, ShiftInBit, ShiftLeft32 and Add32 do uint32 arithmetic on     *)
(*    that representation.                                                 *)
(*  - A read outside the byte array is not given a value: TLC stops with   *)
(*    an error if a behaviour of the model ever performs one.              *)
(***************************************************************************)
EXTENDS Integers, Sequences, FiniteSets, TLC

VARIABLES
    input,       \* ghost: what the caller (and the paired compressor) chose
    callerSource,      \* the byte array the caller passes as source
    callerDestLength,  \* the destLength the caller passes
    callerState,       \* the decoder state struct the incremental calls work on
    out,         \* ghost: the bytes the incremental calls delivered, in order
    calls,       \* ghost: the number of symbol / block calls made so far
    ret,         \* the last call on the state: its name, arguments and return value
    size,        \* what the GetDecompressedSize call returned
    oneshot,     \* what the one-shot decompress call returned and wrote
    pc           \* where the caller stands: "idle", "started", "ended"

vars == <<input, callerSource, callerDestLength, callerState, out, calls, ret, size,
          oneshot, pc>>

(***************************************************************************)
(* Bounds of the model.                                                    *)
(***************************************************************************)
RawLen == 5          \* bytes in an exhaustively enumerated byte array
MaxStart == 8        \* largest bit position a call on such an array starts at
MaxReadBits == 32    \* largest bitLength handed to ReadBitstream

(***************************************************************************)
(* TLC evaluates a definition when it is first used, and a chain of        *)
(* unevaluated values handed down a recursion nests as deep as the         *)
(* recursion is long.  With([r \in {e} |-> body]) is body with r standing   *)
(* for e, which is evaluated first, and once: the way the model writes     *)
(* "r = f(...);" of the code, followed by the statements that use r.       *)
(***************************************************************************)
With(f) == f[CHOOSE x \in DOMAIN f : TRUE]

(***************************************************************************)
(* uint32 arithmetic on the two's complement representation.               *)
(***************************************************************************)
MaxInt == 2147483646 + 1
MinInt == -MaxInt - 1

Bit31(value) == IF value < 0 THEN 1 ELSE 0
Low31(value) == IF value < 0 THEN value - MinInt ELSE value

\* bit i (0 = least significant) of the uint32 value
BitOf(value, i) == IF i = 31 THEN Bit31(value) ELSE (value \div (2 ^ i)) % 2

\* value <<= 1; value |= b;
ShiftInBit(value, b) ==
    (2 * (value % (2 ^ 30)) + b) + (IF (value \div (2 ^ 30)) % 2 = 1 THEN MinInt ELSE 0)

RECURSIVE ShiftLeft32(_, _)
\* value << n in uint32, 0 <= n < 32 (one bit at a time, in two halves)
ShiftLeft32(value, n) ==
    IF n <= 0 THEN value
    ELSE IF n = 1 THEN ShiftInBit(value, 0)
    ELSE With([first \in {ShiftLeft32(value, n \div 2)} |->
              ShiftLeft32(first, n - (n \div 2))])

\* a + b in uint32: the sum of the int32 values, wrapped
Add32(a, b) ==
    IF (a < 0) # (b < 0) THEN a + b
    ELSE IF a >= 0
    THEN (IF a > MaxInt - b THEN ((a + MinInt) + b) + MinInt ELSE a + b)
    ELSE (IF a < MinInt - b THEN ((a - MinInt) + b) - MinInt ELSE a + b)

\* ~a in uint32
Not32(a) == IF a >= 0 THEN -a - 1 ELSE -(a + 1)

\* a - b in uint32: the difference of the int32 values, wrapped
Sub32(a, b) ==
    IF (a < 0) = (b < 0) THEN a - b
    ELSE IF a >= 0
    THEN (IF a > MaxInt + b THEN ((a + MinInt) - b) + MinInt ELSE a - b)
    ELSE (IF a < MinInt + b THEN ((a - MinInt) - b) - MinInt ELSE a - b)

\* a < b, both uint32
Less32(a, b) == IF (a < 0) = (b < 0) THEN a < b ELSE b < 0

\* value >> 1 in uint32
ShiftRight1(value) ==
    IF value < 0 THEN ((value - MinInt) \div 2) + (2 ^ 30) ELSE value \div 2

RECURSIVE MulLoop(_, _, _)
\* acc + a * b in uint32, by the shifted copies of a for the set bits of b
MulLoop(a, b, acc) ==
    IF b = 0 THEN acc
    ELSE With([next \in {<<ShiftInBit(a, 0), ShiftRight1(b),
                           IF b % 2 = 1 THEN Add32(acc, a) ELSE acc>>} |->
              MulLoop(next[1], next[2], next[3])])

\* a * b in uint32: the product itself when it is below 2^31
Mul32(a, b) ==
    IF a = 0 \/ b = 0 THEN 0
    ELSE IF a > 0 /\ b > 0 /\ a <= MaxInt \div b THEN a * b
    ELSE MulLoop(a, b, 0)

RECURSIVE DivLoop(_, _, _)
\* a / n in uint32 by subtraction, added to q: for a divisor of 2^30 or more
DivLoop(a, n, q) == IF Less32(a, n) THEN q ELSE DivLoop(Sub32(a, n), n, q + 1)

RECURSIVE ModLoop(_, _)
ModLoop(a, n) == IF Less32(a, n) THEN a ELSE ModLoop(Sub32(a, n), n)

\* 2^31 / n and 2^31 % n, 1 < n < 2^30
Div31(n) == IF MaxInt % n = n - 1 THEN (MaxInt \div n) + 1 ELSE MaxInt \div n
Mod31(n) == IF MaxInt % n = n - 1 THEN 0 ELSE (MaxInt % n) + 1

\* a / n in uint32, n # 0
Div32(a, n) ==
    CASE n # 0 ->
        IF n < 0 \/ n >= 2 ^ 30 THEN DivLoop(a, n, 0)
        ELSE IF a >= 0 THEN a \div n
        ELSE IF n = 1 THEN a
        ELSE Div31(n) + ((a - MinInt) \div n) + ((Mod31(n) + ((a - MinInt) % n)) \div n)

\* a % n in uint32, n # 0
Mod32(a, n) ==
    CASE n # 0 ->
        IF n < 0 \/ n >= 2 ^ 30 THEN ModLoop(a, n)
        ELSE IF a >= 0 THEN a % n
        ELSE IF n = 1 THEN 0
        ELSE (Mod31(n) + ((a - MinInt) % n)) % n

\* (uint8_t)value
U8(value) == value % 256

(***************************************************************************)
(* Utility functions (Decompressor.c, "utility functions").                *)
(***************************************************************************)
\* Count number of ones set in value
OnesCount(value) == Cardinality({i \in 0..31 : BitOf(value, i) = 1})

\* value |= value >> 1, >> 2, >> 4, >> 8, >> 16: every bit below the highest
\* set bit of value is set
FlowBitsDownwards(value) ==
    IF value = 0 THEN 0
    ELSE IF value < 0 THEN -1
    ELSE LET high == CHOOSE i \in 0..30 : 2 ^ i <= value /\ (i = 30 \/ value < 2 ^ (i + 1))
         IN  IF high = 30 THEN MaxInt ELSE (2 ^ (high + 1)) - 1

\* Compute Floor of Log2 of value; 0 goes to 0
FloorLog2(value) == OnesCount(ShiftRight1(FlowBitsDownwards(value)))

\* Bits required to store value.  Value 0 returns 1.
BitsRequired(value) == 1 + FloorLog2(value)

(***************************************************************************)
(* Bitstream (Decompressor.c, "bitstream implementation").                 *)
(* Bitstream_t is [data |-> the byte array, position |-> the bit index].   *)
(***************************************************************************)
InitializeBitstream(data) == [data |-> data, position |-> 0]

\* The mutant reads the bits of a byte least significant first.
StreamBitAtLSBFirst(bits, pos) == (bits[(pos \div 8) + 1] \div (2 ^ (pos % 8))) % 2

\* b1 = bits[pos / 8]; b = ((b1 >> (7 - (pos & 7))) & 1);
StreamBitAt(bits, pos) == (bits[(pos \div 8) + 1] \div (2 ^ (7 - (pos % 8)))) % 2

\* One iteration of the loop of ReadBitstream.
ReadBitstreamStep(bitstream, value) ==
    [bitstream |-> [bitstream EXCEPT !.position = bitstream.position + 1],
     value |-> ShiftInBit(value, StreamBitAt(bitstream.data, bitstream.position))]

RECURSIVE ReadBitstreamLoop(_, _, _)
\* n consecutive iterations of the loop, in order.  The run of iterations is
\* split in two halves, one after the other, so that TLC's evaluation of a
\* 32-bit read nests 5 deep and not 32.
ReadBitstreamLoop(bitstream, n, value) ==
    IF n <= 0 THEN [bitstream |-> bitstream, value |-> value]
    ELSE IF n = 1 THEN ReadBitstreamStep(bitstream, value)
    ELSE With([first \in {ReadBitstreamLoop(bitstream, n \div 2, value)} |->
              ReadBitstreamLoop(first.bitstream, n - (n \div 2), first.value)])

\* Read values from current position, MSB first.  A bitLength of 2^31 or more
\* (negative here) reads past every array, and has no value.
ReadBitstream(bitstream, bitLength) ==
    CASE bitLength >= 0 -> ReadBitstreamLoop(bitstream, bitLength, 0)

\* The mutant forgets to restore the internal position.
ReadFromBitstreamPositionNoRestore(bitstream, position, bitLength) ==
    With([r \in {ReadBitstream([bitstream EXCEPT !.position = position], bitLength)} |->
         [bitstream |-> r.bitstream, position |-> r.bitstream.position, value |-> r.value]])

\* Read values from given position, update it, MSB first: temp is the
\* internal position, which is put back after the read
ReadFromBitstreamPosition(bitstream, position, bitLength) ==
    With([r \in {ReadBitstream([bitstream EXCEPT !.position = position], bitLength)} |->
         [bitstream |-> [r.bitstream EXCEPT !.position = bitstream.position],
          position |-> r.bitstream.position,
          value |-> r.value]])

(***************************************************************************)
(* Universal coding (Decompressor.c, DecodeUniversalLomont1).              *)
(***************************************************************************)
\* The ways a build resolves chunk << shift with shift >= 32, which C leaves
\* undefined: the shift count taken modulo 32, or all bits shifted out.
ShiftBuilds == {"mask", "zero"}

\* chunk << shift.  With shiftBuild = "defined" a shift by 32 or more has no
\* value, and TLC stops with an error if a behaviour ever performs one.
ShiftChunk(chunk, shift, shiftBuild) ==
    CASE shift < 32 \/ shiftBuild = "mask" -> ShiftLeft32(chunk, shift % 32)
      [] shift >= 32 /\ shiftBuild = "zero" -> 0

\* The mutant clamps the chunk size at 0 instead of 1.
NextChunkSizeClampZero(chunkSize, deltaChunk) ==
    IF deltaChunk # 0
    THEN IF chunkSize + deltaChunk < 0 THEN 1 ELSE chunkSize + deltaChunk
    ELSE chunkSize

\* if (deltaChunk != 0) { chunkSize += deltaChunk; if (chunkSize <= 0) chunkSize = 1; }
NextChunkSize(chunkSize, deltaChunk) ==
    IF deltaChunk # 0
    THEN IF chunkSize + deltaChunk <= 0 THEN 1 ELSE chunkSize + deltaChunk
    ELSE chunkSize

RECURSIVE Lomont1Loop(_, _, _, _, _, _)
\* the do-while loop, from the iteration that starts with these values
Lomont1Loop(bitstream, chunkSize, deltaChunk, value, shift, shiftBuild) ==
    With([rb \in {ReadBitstream(bitstream, 1)} |->
    With([rc \in {ReadBitstream(rb.bitstream, chunkSize)} |->
    With([value2 \in {Add32(value, ShiftChunk(rc.value, shift, shiftBuild))} |->
         IF rb.value # 0
         THEN Lomont1Loop(rc.bitstream, NextChunkSize(chunkSize, deltaChunk),
                          deltaChunk, value2, shift + chunkSize, shiftBuild)
         ELSE [bitstream |-> rc.bitstream, value |-> value2]])])])

\* Decode Lomont method 1
DecodeUniversalLomont1(bitstream, chunkSize, deltaChunk) ==
    Lomont1Loop(bitstream, chunkSize, deltaChunk, 0, 0, "defined")

(***************************************************************************)
(* Universal compression header.                                           *)
(***************************************************************************)
\* some incremental decompressors return this when done (0xFFFFFFFF)
CL_COMPRESSOR_END_TOKEN == -1

\* The mutant reads the field with the chunk size of the field after it.
GetDecompressedSizeChunk3(source) ==
    DecodeUniversalLomont1(InitializeBitstream(source), 3, 0)

\* get size of decompressed stream: a bitstream of its own, on the stack, which
\* the record returns next to the value
GetDecompressedSize(source) ==
    DecodeUniversalLomont1(InitializeBitstream(source), 6, 0)

(***************************************************************************)
(* Huffman coding.  HuffmanState_t is the record of its fields.  No        *)
(* function of the decoder reads its sourceLength argument, and the model  *)
(* leaves it out.                                                          *)
(***************************************************************************)
RECURSIVE SkipTableSymbols(_, _, _)
\* for (symbolIndex = 0; symbolIndex < count; ++symbolIndex) ReadBitstream(...)
SkipTableSymbols(bitstream, count, bitsPerSymbol) ==
    IF count = 0 THEN bitstream
    ELSE With([r \in {ReadBitstream(bitstream, bitsPerSymbol)} |->
              SkipTableSymbols(r.bitstream, count - 1, bitsPerSymbol)])

RECURSIVE ParseTableRows(_, _)
\* the loop over the codeword lengths, from the given length on
ParseTableRows(state, length) ==
    IF length > state.maxCodewordLength THEN state
    ELSE With([rc \in {ReadBitstream(state.bitstream, state.bitsPerCodelengthCount)} |->
         With([after \in {SkipTableSymbols(rc.bitstream, rc.value, state.bitsPerSymbol)} |->
              ParseTableRows([state EXCEPT !.bitstream = after], length + 1)])])

ParseHuffmanTable(state) ==
    ParseTableRows([state EXCEPT !.tablePosition = state.bitstream.position],
                   state.minCodewordLength)

\* read from header, skipping byte length, assumes state bitstream is set
ReadHuffmanHeaderNoLength(state) ==
    With([r1 \in {DecodeUniversalLomont1(state.bitstream, 3, 0)} |->
    With([r2 \in {DecodeUniversalLomont1(r1.bitstream, 3, 0)} |->
    With([r3 \in {DecodeUniversalLomont1(r2.bitstream, 2, 0)} |->
    With([r4 \in {DecodeUniversalLomont1(r3.bitstream, 4, -1)} |->
    With([minCodewordLength \in {U8(Add32(1, r3.value))} |->
    With([deltaCodewordLength \in {Add32(1, r4.value)} |->
         ParseHuffmanTable(
             [state EXCEPT !.bitstream = r4.bitstream,
                           !.bitsPerSymbol = U8(Add32(1, r1.value)),
                           !.bitsPerCodelengthCount = U8(Add32(1, r2.value)),
                           !.minCodewordLength = minCodewordLength,
                           !.maxCodewordLength =
                               U8(Add32(minCodewordLength, deltaCodewordLength))])])])])])])])

\* The mutant takes every codeword for the first of its row.
ItemIndexFirstOfRow(accumulator, firstCodewordOnRow) == 0

\* accumulator - firstCodewordOnRow: the place of the codeword on its row
ItemIndex(accumulator, firstCodewordOnRow) == Sub32(accumulator, firstCodewordOnRow)

\* firstCodewordOnRow += numberOfCodes; ...; firstCodewordOnRow <<= 1;
NextRowFirst(firstCodewordOnRow, numberOfCodes) ==
    ShiftInBit(Add32(firstCodewordOnRow, numberOfCodes), 0)

RECURSIVE HuffmanMinBits(_, _, _)
\* read min number of bits: accumulator = 2 * accumulator + bit, n times
HuffmanMinBits(bitstream, n, accumulator) ==
    IF n = 0 THEN [bitstream |-> bitstream, value |-> accumulator]
    ELSE With([rb \in {ReadBitstream(bitstream, 1)} |->
         With([acc2 \in {ShiftInBit(accumulator, rb.value)} |->
              HuffmanMinBits(rb.bitstream, n - 1, acc2)])])

RECURSIVE HuffmanWalk(_, _, _, _)
\* the while (1) loop, from the iteration that starts with these values:
\* rn.value is numberOfCodes, and rn.position is tableIndex after the read
HuffmanWalk(state, accumulator, firstCodewordOnRow, tableIndex) ==
    With([rn \in {ReadFromBitstreamPosition(state.bitstream, tableIndex,
                                   state.bitsPerCodelengthCount)} |->
    With([itemIndex \in {ItemIndex(accumulator, firstCodewordOnRow)} |->
         IF rn.value # 0 /\ Less32(itemIndex, rn.value)
         THEN With([rs \in {ReadFromBitstreamPosition(
                       rn.bitstream,
                       Add32(rn.position, Mul32(itemIndex, state.bitsPerSymbol)),
                       state.bitsPerSymbol)} |->
                   [state |-> [state EXCEPT !.bitstream = rs.bitstream],
                    value |-> rs.value]])
         ELSE With([rb \in {ReadBitstream(rn.bitstream, 1)} |->
              With([next \in {<<ShiftInBit(accumulator, rb.value),
                     NextRowFirst(firstCodewordOnRow, rn.value),
                     Add32(rn.position, Mul32(rn.value, state.bitsPerSymbol))>>} |->
                       HuffmanWalk([state EXCEPT !.bitstream = rb.bitstream],
                                   next[1], next[2], next[3])])])])])

\* The mutant counts down the mark 0xFFFFFFFF as well.
CountDownAlways(byteLength) == Sub32(byteLength, 1)

\* if (state->byteLength != 0xFFFFFFFF) state->byteLength--;
CountDown(byteLength) == IF byteLength # -1 THEN Sub32(byteLength, 1) ELSE byteLength

\* decompress a symbol.  Returns CL_COMPRESSOR_END_TOKEN when no more
DecompressHuffmanSymbol(state) ==
    IF state.byteLength = 0
    THEN [state |-> state, value |-> CL_COMPRESSOR_END_TOKEN]
    ELSE With([byteLength \in {CountDown(state.byteLength)} |->
         With([rm \in {HuffmanMinBits(state.bitstream, state.minCodewordLength, 0)} |->
              HuffmanWalk([state EXCEPT !.byteLength = byteLength,
                                        !.bitstream = rm.bitstream],
                          rm.value, 0, state.tablePosition)])])

\* start decompression, follow up with DecompressHuffmanSymbol until done
DecompressHuffmanStart(state, source) ==
    With([r \in {DecodeUniversalLomont1(InitializeBitstream(source), 6, 0)} |->
         ReadHuffmanHeaderNoLength(
             [state EXCEPT !.bitstream = r.bitstream, !.byteLength = r.value])])

RECURSIVE DecompressHuffmanLoop(_, _, _, _)
\* while (state.byteLength != 0 && byteIndex < (uint32_t)destLength)
DecompressHuffmanLoop(state, dest, byteIndex, destLength) ==
    IF state.byteLength # 0 /\ Less32(byteIndex, destLength)
    THEN With([r \in {DecompressHuffmanSymbol(state)} |->
              IF r.value = CL_COMPRESSOR_END_TOKEN
              THEN [state |-> r.state, dest |-> dest, value |-> byteIndex]
              ELSE DecompressHuffmanLoop(
                       r.state, [dest EXCEPT ![byteIndex + 1] = U8(r.value)],
                       byteIndex + 1, destLength)])
    ELSE [state |-> state, dest |-> dest, value |-> byteIndex]

\* the fields of a HuffmanState_t nobody has written yet
HuffmanStateUnset ==
    [bitstream |-> "unset", tablePosition |-> "unset", byteLength |-> "unset",
     bitsPerSymbol |-> "unset", minCodewordLength |-> "unset",
     maxCodewordLength |-> "unset", bitsPerCodelengthCount |-> "unset"]

\* The mutant decodes every symbol, whatever destLength is.
DecompressHuffmanNoLimit(source, dest, destLength) ==
    DecompressHuffmanLoop(DecompressHuffmanStart(HuffmanStateUnset, source), dest, 0, -1)

\* Single call decompression: decompress, return bytes decoded
DecompressHuffman(source, dest, destLength) ==
    DecompressHuffmanLoop(DecompressHuffmanStart(HuffmanStateUnset, source),
                          dest, 0, destLength)

(***************************************************************************)
(* Arithmetic coding.  ArithmeticState_t is the record of its fields but   *)
(* scaling, which no function reads or writes.                             *)
(***************************************************************************)
\* constants defining the range
range25Percent == 2 ^ 29
range50Percent == 2 ^ 30
range75Percent == 3 * (2 ^ 29)
range100Percent == MinInt

\* The mutant compares bitsRead as it was before the call.
ReadArithmeticBistreamTestFirst(state, bitCount) ==
    With([bitsRead \in {Add32(state.bitsRead, 1)} |->
         IF Less32(state.bitsRead, state.bitLength)
         THEN With([r \in {ReadBitstream(state.bitstream, bitCount)} |->
                   [state |-> [state EXCEPT !.bitsRead = bitsRead,
                                            !.bitstream = r.bitstream],
                    value |-> r.value]])
         ELSE [state |-> [state EXCEPT !.bitsRead = bitsRead], value |-> 0]])

\* state->bitsRead++; if (state->bitsRead < state->bitLength) return ReadBitstream(...); return 0;
ReadArithmeticBistream(state, bitCount) ==
    With([bitsRead \in {Add32(state.bitsRead, 1)} |->
         IF Less32(bitsRead, state.bitLength)
         THEN With([r \in {ReadBitstream(state.bitstream, bitCount)} |->
                   [state |-> [state EXCEPT !.bitsRead = bitsRead,
                                            !.bitstream = r.bitstream],
                    value |-> r.value]])
         ELSE [state |-> [state EXCEPT !.bitsRead = bitsRead], value |-> 0]])

\* symbol min index used, max index used, number of bits in table; the
\* table is jumped past
DecodeArithmeticTable(state) ==
    With([r1 \in {DecodeUniversalLomont1(state.bitstream, 6, 0)} |->
    With([r2 \in {DecodeUniversalLomont1(r1.bitstream, 6, 0)} |->
    With([r3 \in {DecodeUniversalLomont1(r2.bitstream, 6, 0)} |->
         [state EXCEPT !.symbolMin = r1.value,
                       !.tableStartBitPosition = r3.bitstream.position,
                       !.bitstream = [r3.bitstream EXCEPT !.position =
                                         Add32(r3.bitstream.position, r3.value)]]])])])

RECURSIVE FillArithmeticBuffer(_, _)
\* for (i = 0; i < 31; ++i) buffer = (buffer << 1) | ReadArithmeticBistream(state, 1)
FillArithmeticBuffer(state, n) ==
    IF n = 0 THEN state
    ELSE With([r \in {ReadArithmeticBistream(state, 1)} |->
         With([s1 \in {[r.state EXCEPT !.buffer = ShiftInBit(state.buffer, r.value)]} |->
              FillArithmeticBuffer(s1, n - 1)])])

\* read from header, assumes state bitstream is set; return number of symbols
ReadArithmeticHeaderNoLength(state) ==
    With([r1 \in {DecodeUniversalLomont1(state.bitstream, 6, 0)} |->
    With([r2 \in {DecodeUniversalLomont1(r1.bitstream, 8, -1)} |->
    With([s2 \in {DecodeArithmeticTable(
             [state EXCEPT !.lowValue = 0,
                           !.highValue = Sub32(range100Percent, 1),
                           !.total = r1.value,
                           !.bitLength = r2.value,
                           !.bitsRead = 0,
                           !.bitstream = r2.bitstream])} |->
    With([s4 \in {FillArithmeticBuffer(
             [s2 EXCEPT !.bitsRead = Sub32(s2.bitstream.position, r2.bitstream.position),
                        !.buffer = 0], 31)} |->
         [state |-> s4, value |-> s4.total]])])])])

\* the fields of an ArithmeticState_t nobody has written yet
ArithmeticStateUnset ==
    [bitstream |-> "unset", lowValue |-> "unset", highValue |-> "unset",
     total |-> "unset", symbolMin |-> "unset", tableStartBitPosition |-> "unset",
     buffer |-> "unset", bitLength |-> "unset", bitsRead |-> "unset"]

\* Read the header for the compression algorithm
DecompressArithmeticStart(state, source) ==
    ReadArithmeticHeaderNoLength([state EXCEPT !.bitstream = InitializeBitstream(source)])

RECURSIVE ReadUnaryDelta(_, _)
\* do { decision = ReadBitstream(1); delta++; } while (decision != 0);
ReadUnaryDelta(bitstream, delta) ==
    With([r \in {ReadBitstream(bitstream, 1)} |->
         IF r.value # 0 THEN ReadUnaryDelta(r.bitstream, delta + 1)
         ELSE [bitstream |-> r.bitstream, value |-> delta + 1]])

\* one entry of the table after the first: its count xi
ReadBASCEntry(bitstream, b1) ==
    With([rd \in {ReadBitstream(bitstream, 1)} |->
         IF rd.value = 0
         THEN ReadBitstream(rd.bitstream, b1)
         ELSE With([ru \in {ReadUnaryDelta(rd.bitstream, 0)} |->
              With([width \in {Sub32(Add32(b1, ru.value), 1)} |->
              With([rx \in {ReadBitstream(ru.bitstream, width)} |->
                   [bitstream |-> rx.bitstream,
                    value |-> Add32(rx.value, ShiftChunk(1, width, "defined"))]])])])])

RECURSIVE LookupLoopStale(_, _, _, _, _, _, _)
\* The mutant never takes the index of the entry as the symbol.
LookupLoopStale(bitstream, cumCount, b1, lowCount, highCount, i, symbol) ==
    IF ~ Less32(cumCount, highCount)
    THEN With([rx \in {ReadBASCEntry(bitstream, b1)} |->
         With([next \in {<<BitsRequired(rx.value), Add32(highCount, rx.value), Add32(i, 1)>>} |->
                  LookupLoopStale(rx.bitstream, cumCount, next[1], highCount, next[2],
                                  next[3], symbol)])])
    ELSE [bitstream |-> bitstream, symbol |-> symbol,
          lowCount |-> lowCount, highCount |-> highCount]

RECURSIVE LookupLoop(_, _, _, _, _, _, _)
\* while (*highCount <= cumCount), from the iteration that starts with these
LookupLoop(bitstream, cumCount, b1, lowCount, highCount, i, symbol) ==
    IF ~ Less32(cumCount, highCount)
    THEN With([rx \in {ReadBASCEntry(bitstream, b1)} |->
         With([next \in {<<BitsRequired(rx.value), Add32(highCount, rx.value), Add32(i, 1)>>} |->
                  LookupLoop(rx.bitstream, cumCount, next[1], highCount, next[2],
                             next[3], IF rx.value # 0 THEN next[3] ELSE symbol)])])
    ELSE [bitstream |-> bitstream, symbol |-> symbol,
          lowCount |-> lowCount, highCount |-> highCount]

\* the scan of the table from tableStartBitPosition, up to the entry of
\* cumCount
LookupTableScan(state, cumCount) ==
    With([rl \in {DecodeUniversalLomont1(
             [state.bitstream EXCEPT !.position = state.tableStartBitPosition], 6, 0)} |->
             IF rl.value # 0
             THEN With([rb \in {DecodeUniversalLomont1(rl.bitstream, 6, 0)} |->
                  With([rx \in {ReadBitstream(rb.bitstream, rb.value)} |->
                       LookupLoop(rx.bitstream, cumCount, rb.value, 0, rx.value,
                                  state.symbolMin, state.symbolMin)])])
             ELSE [bitstream |-> rl.bitstream, symbol |-> 0, lowCount |-> 0,
                   highCount |-> 0]])

\* lookup symbol and probability range using table decoding: tempPosition is
\* the position of the bitstream, which is restored after the scan
LookupArithmeticLowMemoryCount(state, cumCount) ==
    With([r \in {LookupTableScan(state, cumCount)} |->
         [state |-> [state EXCEPT !.bitstream =
                        [r.bitstream EXCEPT !.position = state.bitstream.position]],
          symbol |-> r.symbol, lowCount |-> r.lowCount, highCount |-> r.highCount]])

\* one step of a scaling loop: the three values less base, doubled, with a 1
\* shifted into highValue and the next bit of the stream into buffer
ScaleStep(state, base) ==
    With([r \in {ReadArithmeticBistream(state, 1)} |->
         [r.state EXCEPT
             !.lowValue = ShiftInBit(Sub32(state.lowValue, base), 0),
             !.highValue = ShiftInBit(Sub32(state.highValue, base), 1),
             !.buffer = Add32(ShiftInBit(Sub32(state.buffer, base), 0), r.value)]])

RECURSIVE ScaleE1E2(_)
\* while ((highValue < range50Percent) || (lowValue >= range50Percent))
ScaleE1E2(state) ==
    IF Less32(state.highValue, range50Percent) \/ ~ Less32(state.lowValue, range50Percent)
    THEN With([s1 \in {ScaleStep(state, IF Less32(state.highValue, range50Percent) THEN 0
                               ELSE range50Percent)} |-> ScaleE1E2(s1)])
    ELSE state

\* The mutant leaves out the e3 scaling.
ScaleE3Never(state) == state

RECURSIVE ScaleE3(_)
\* while ((range25Percent <= lowValue) && (highValue < range75Percent))
ScaleE3(state) ==
    IF ~ Less32(state.lowValue, range25Percent) /\ Less32(state.highValue, range75Percent)
    THEN With([s1 \in {ScaleStep(state, range25Percent)} |-> ScaleE3(s1)])
    ELSE state

\* Decompress a symbol in the compression algorithm
DecompressArithmeticSymbol(state) ==
    With([step \in {Div32(Add32(Sub32(state.highValue, state.lowValue), 1), state.total)} |->
    With([cumCount \in {Div32(Sub32(state.buffer, state.lowValue), step)} |->
    With([r \in {LookupArithmeticLowMemoryCount(state, cumCount)} |->
    With([s1 \in {[r.state EXCEPT
             !.highValue = Sub32(Add32(state.lowValue, Mul32(step, r.highCount)), 1),
             !.lowValue = Add32(state.lowValue, Mul32(step, r.lowCount))]} |->
    With([s2 \in {ScaleE1E2(s1)} |->
         [state |-> ScaleE3(s2), value |-> r.symbol]])])])])])

RECURSIVE DecompressArithmeticLoop(_, _, _, _, _)
\* for (i = 0; i < symbolCount; ++i) dest[i] = DecompressArithmeticSymbol(&state);
\* dest holds the destLength bytes of the caller's buffer, and beyond collects
\* the bytes stored at dest[i] for i >= destLength, outside the buffer.
DecompressArithmeticLoop(state, dest, beyond, i, symbolCount) ==
    IF Less32(i, symbolCount)
    THEN With([r \in {DecompressArithmeticSymbol(state)} |->
              IF i < Len(dest)
              THEN DecompressArithmeticLoop(
                       r.state, [dest EXCEPT ![i + 1] = U8(r.value)], beyond,
                       i + 1, symbolCount)
              ELSE DecompressArithmeticLoop(
                       r.state, dest, Append(beyond, U8(r.value)), i + 1, symbolCount)])
    ELSE [state |-> state, dest |-> dest, beyond |-> beyond, value |-> symbolCount]

\* decompress, return bytes decoded; destLength is not read
DecompressArithmetic(source, dest) ==
    With([r \in {DecompressArithmeticStart(ArithmeticStateUnset, source)} |->
         DecompressArithmeticLoop(r.state, dest, <<>>, 0, r.value)])

(***************************************************************************)
(* LZ77 coding.  LZ77State_t is the record of its fields; dest holds the   *)
(* bytes of the caller's buffer the pointer dest addresses.  A block       *)
(* call's record has, next to the state and the returned value, the bytes  *)
(* it stored, in the order it stored them (written).                       *)
(***************************************************************************)
\* the fields of an LZ77State_t nobody has written yet
LZ77StateUnset ==
    [bitstream |-> "unset", byteIndex |-> "unset", byteLength |-> "unset",
     dest |-> "unset", destLength |-> "unset", actualMaxToken |-> "unset",
     actualMaxDistance |-> "unset", actualMinLength |-> "unset",
     actualBitsPerSymbol |-> "unset", actualBitsPerToken |-> "unset"]

\* start decompression, follow up with DecompressLZ77Block until done
DecompressLZ77Start(state, source, dest, destLength) ==
    With([r1 \in {DecodeUniversalLomont1(InitializeBitstream(source), 6, 0)} |->
    With([r2 \in {DecodeUniversalLomont1(r1.bitstream, 3, 0)} |->
    With([r3 \in {DecodeUniversalLomont1(r2.bitstream, 5, 0)} |->
    With([r4 \in {DecodeUniversalLomont1(r3.bitstream, 2, 0)} |->
    With([r5 \in {DecodeUniversalLomont1(r4.bitstream, 25, -10)} |->
    With([r6 \in {DecodeUniversalLomont1(r5.bitstream, 14, -7)} |->
         [state EXCEPT !.bitstream = r6.bitstream,
                       !.byteLength = r1.value,
                       !.actualBitsPerSymbol = U8(Add32(r2.value, 1)),
                       !.actualBitsPerToken = U8(Add32(r3.value, 1)),
                       !.actualMinLength = U8(r4.value),
                       !.actualMaxToken = r5.value,
                       !.actualMaxDistance = r6.value,
                       !.byteIndex = 0,
                       !.dest = dest,
                       !.destLength = destLength]])])])])])])

\* dest[byteIndex % destLength] = byte; byteIndex++;
StoreByte(state, byte) ==
    [state EXCEPT !.dest[Mod32(state.byteIndex, state.destLength) + 1] = byte,
                  !.byteIndex = Add32(state.byteIndex, 1)]

\* The mutant looks back distance bytes, not distance + 1.
LZ77DeltaNoMinusOne(destLength, distance) == Sub32(destLength, distance)

\* positive delta that looks back when taken mod destLength
LZ77Delta(destLength, distance) == Sub32(Sub32(destLength, distance), 1)

RECURSIVE LZ77CopyLoop(_, _, _, _, _)
\* for (i = 0; i < length; ++i) { dest[byteIndex % destLength] =
\*     dest[(byteIndex + delta) % destLength]; byteIndex++; }
LZ77CopyLoop(state, delta, i, length, written) ==
    IF Less32(i, length)
    THEN With([byte \in {state.dest[Mod32(Add32(state.byteIndex, delta), state.destLength) + 1]} |->
         With([s1 \in {StoreByte(state, byte)} |->
              LZ77CopyLoop(s1, delta, Add32(i, 1), length, Append(written, byte))])])
    ELSE [state |-> state, value |-> length, written |-> written]

\* A run copied as a block: every byte of the run is the byte the buffer held
\* at its source before the run started.
BlockCopyRun(state, distance, length) ==
    LET delta == Sub32(Sub32(state.destLength, distance), 1)
        from(i) == state.dest[Mod32(Add32(Add32(state.byteIndex, i), delta),
                                    state.destLength) + 1]
        slots == {Mod32(Add32(state.byteIndex, i), state.destLength) + 1 :
                     i \in 0..(length - 1)}
        last(slot) == CHOOSE i \in 0..(length - 1) :
                         /\ Mod32(Add32(state.byteIndex, i), state.destLength) + 1 = slot
                         /\ \A j \in (i + 1)..(length - 1) :
                               Mod32(Add32(state.byteIndex, j), state.destLength) + 1 # slot
    IN  [state |-> [state EXCEPT
                       !.dest = [slot \in DOMAIN state.dest |->
                                    IF slot \in slots THEN from(last(slot))
                                    ELSE state.dest[slot]],
                       !.byteIndex = Add32(state.byteIndex, length)],
         value |-> length,
         written |-> [i \in 1..length |-> from(i - 1)]]

\* The mutant copies the run as a block.
LZ77CopyRunAsBlock(state, distance, length) == BlockCopyRun(state, distance, length)

\* The mutant copies the run and returns 0.
LZ77CopyRunNoCount(state, distance, length) ==
    With([r \in {LZ77CopyLoop(state, LZ77Delta(state.destLength, distance), 0, length,
                              <<>>)} |->
         [r EXCEPT !.value = 0]])

\* copy run
LZ77CopyRun(state, distance, length) ==
    LZ77CopyLoop(state, LZ77Delta(state.destLength, distance), 0, length, <<>>)

\* returns number of items decompressed, or CL_COMPRESSOR_END_TOKEN when no more
DecompressLZ77Block(state) ==
    IF ~ Less32(state.byteIndex, state.byteLength)
    THEN [state |-> state, value |-> CL_COMPRESSOR_END_TOKEN, written |-> <<>>]
    ELSE With([rd \in {ReadBitstream(state.bitstream, 1)} |->
              IF rd.value = 0
              THEN With([rl \in {ReadBitstream(rd.bitstream, state.actualBitsPerSymbol)} |->
                        [state |-> StoreByte([state EXCEPT !.bitstream = rl.bitstream],
                                             U8(rl.value)),
                         value |-> 1,
                         written |-> <<U8(rl.value)>>]])
              ELSE With([rt \in {ReadBitstream(rd.bitstream, state.actualBitsPerToken)} |->
                   With([base \in {Add32(state.actualMaxDistance, 1)} |->
                        LZ77CopyRun([state EXCEPT !.bitstream = rt.bitstream],
                                    Mod32(rt.value, base),
                                    Add32(Div32(rt.value, base), state.actualMinLength))])])])

RECURSIVE DecompressLZ77LoopHeader(_)
\* The mutant returns the byte length of the header.
DecompressLZ77LoopHeader(state) ==
    With([r \in {DecompressLZ77Block(state)} |->
         IF r.value # CL_COMPRESSOR_END_TOKEN THEN DecompressLZ77LoopHeader(r.state)
         ELSE [state |-> r.state, dest |-> r.state.dest, value |-> r.state.byteLength]])

RECURSIVE DecompressLZ77Loop(_)
\* while (symbolCount != CL_COMPRESSOR_END_TOKEN) symbolCount = DecompressLZ77Block(&state);
DecompressLZ77Loop(state) ==
    With([r \in {DecompressLZ77Block(state)} |->
         IF r.value # CL_COMPRESSOR_END_TOKEN THEN DecompressLZ77Loop(r.state)
         ELSE [state |-> r.state, dest |-> r.state.dest, value |-> r.state.byteIndex]])

\* decompress, return bytes decoded
DecompressLZ77(source, dest, destLength) ==
    DecompressLZ77Loop(DecompressLZ77Start(LZ77StateUnset, source, dest, destLength))

(***************************************************************************)
(* Fixed length coding and Golomb coding.                                  *)
(***************************************************************************)
ReadFixedHeaderNoLength(state) ==
    With([r \in {DecodeUniversalLomont1(state.bitstream, 3, 0)} |->
         [state EXCEPT !.bitstream = r.bitstream, !.bitsPerSymbol = Add32(r.value, 1)]])

DecompressFixedSymbol(state) ==
    With([r \in {ReadBitstream(state.bitstream, state.bitsPerSymbol)} |->
         [state |-> [state EXCEPT !.bitstream = r.bitstream], value |-> r.value]])

ReadGolombHeaderNoLength(state) ==
    With([r \in {DecodeUniversalLomont1(state.bitstream, 6, 0)} |->
         [state EXCEPT !.bitstream = r.bitstream, !.parameter = r.value]])

\* The mutant never reads the extra bit.
DecodeTruncatedShort(bitstream, n, shiftBuild) ==
    With([k \in {BitsRequired(n)} |-> ReadBitstream(bitstream, k - 1)])

\* Decodes truncated code item.  1U << k is undefined for k = 32 (n >= 2^31):
\* shiftBuild is the value the build gives it.
DecodeTruncatedBuild(bitstream, n, shiftBuild) ==
    With([k \in {BitsRequired(n)} |->
    With([u \in {Sub32(ShiftChunk(1, k, shiftBuild), n)} |->
    With([rx \in {ReadBitstream(bitstream, k - 1)} |->
         IF ~ Less32(rx.value, u)
         THEN With([rb \in {ReadBitstream(rx.bitstream, 1)} |->
                   [bitstream |-> rb.bitstream,
                    value |-> Sub32(Add32(ShiftInBit(rx.value, 0), rb.value), u)]])
         ELSE rx])])])

DecodeTruncated(bitstream, n) == DecodeTruncatedBuild(bitstream, n, "defined")

RECURSIVE GolombQuotient(_, _)
\* while (ReadBitstream(&state->bitstream, 1) == 1) ++q;
GolombQuotient(bitstream, q) ==
    With([r \in {ReadBitstream(bitstream, 1)} |->
         IF r.value = 1 THEN GolombQuotient(r.bitstream, Add32(q, 1))
         ELSE [bitstream |-> r.bitstream, value |-> q]])

DecompressGolombSymbolBuild(state, shiftBuild) ==
    With([rq \in {GolombQuotient(state.bitstream, 0)} |->
    With([rr \in {DecodeTruncatedBuild(rq.bitstream, state.parameter, shiftBuild)} |->
         [state |-> [state EXCEPT !.bitstream = rr.bitstream],
          value |-> Add32(Mul32(rq.value, state.parameter), rr.value)]])])

DecompressGolombSymbol(state) == DecompressGolombSymbolBuild(state, "defined")

(***************************************************************************)
(* LZCL coding.  An LZCLSubCodec_t is [codecType, bitLength, member],      *)
(* where member is the one member of the union that was written: a field   *)
(* fixedState, arithmeticState, huffmanState or golombState.  Of the two   *)
(* unions of LZCLState_t, decisionRunCodec is the storage of decisionCodec *)
(* and tokenCodec is the storage of distanceCodec: the record has the      *)
(* fields decisionCodec and distanceCodec, and an access to the other      *)
(* member is an access to them.                                            *)
(***************************************************************************)
DecodeLZCLSymbol(codec) ==
    IF codec.codecType = 0
    THEN With([r \in {DecompressFixedSymbol(codec.fixedState)} |->
              [codec |-> [codec EXCEPT !.fixedState = r.state], value |-> r.value]])
    ELSE IF codec.codecType = 1
    THEN With([r \in {DecompressArithmeticSymbol(codec.arithmeticState)} |->
              [codec |-> [codec EXCEPT !.arithmeticState = r.state], value |-> r.value]])
    ELSE IF codec.codecType = 2
    THEN With([r \in {DecompressHuffmanSymbol(codec.huffmanState)} |->
              [codec |-> [codec EXCEPT !.huffmanState = r.state], value |-> r.value]])
    ELSE IF codec.codecType = 3
    THEN With([r \in {DecompressGolombSymbol(codec.golombState)} |->
              [codec |-> [codec EXCEPT !.golombState = r.state], value |-> r.value]])
    ELSE [codec |-> codec, value |-> 195936478]

\* the sub-codec of the given type on the bitstream own, its header read
ReadLZCLHeader(codecType, bitLength, own) ==
    IF codecType = 0
    THEN [codecType |-> codecType, bitLength |-> bitLength,
          fixedState |-> ReadFixedHeaderNoLength([bitstream |-> own, bitsPerSymbol |-> 0])]
    ELSE IF codecType = 1
    THEN [codecType |-> codecType, bitLength |-> bitLength,
          arithmeticState |-> ReadArithmeticHeaderNoLength(
              [bitstream |-> own, lowValue |-> 0, highValue |-> 0,
               total |-> 0, symbolMin |-> 0, tableStartBitPosition |-> 0,
               buffer |-> 0, bitLength |-> 0, bitsRead |-> 0]).state]
    ELSE IF codecType = 2
    THEN [codecType |-> codecType, bitLength |-> bitLength,
          huffmanState |->
              [ReadHuffmanHeaderNoLength(
                   [bitstream |-> own, tablePosition |-> 0, byteLength |-> 0,
                    bitsPerSymbol |-> 0, minCodewordLength |-> 0,
                    maxCodewordLength |-> 0, bitsPerCodelengthCount |-> 0])
               EXCEPT !.byteLength = -1]]
    ELSE [codecType |-> codecType, bitLength |-> bitLength,
          golombState |-> ReadGolombHeaderNoLength([bitstream |-> own, parameter |-> 0])]

\* the bitstream of a sub-codec, whichever its type
OwnBitstream(decoder) ==
    IF decoder.codecType = 0 THEN decoder.fixedState.bitstream
    ELSE IF decoder.codecType = 1 THEN decoder.arithmeticState.bitstream
    ELSE IF decoder.codecType = 2 THEN decoder.huffmanState.bitstream
    ELSE decoder.golombState.bitstream

\* The mutant leaves the parent at the end of the bit_length field.
ReadLZCLItemNoSkip(bitstream) ==
    With([rt \in {ReadBitstream(bitstream, 2)} |->
    With([rl \in {DecodeUniversalLomont1(rt.bitstream, 6, 0)} |->
         [bitstream |-> rl.bitstream,
          decoder |-> ReadLZCLHeader(U8(rt.value), rl.value, rl.bitstream)]])])

\* Get codec type, a bitstream for it, read the header, advance the bitstream
ReadLZCLItem(bitstream) ==
    With([rt \in {ReadBitstream(bitstream, 2)} |->
    With([rl \in {DecodeUniversalLomont1(rt.bitstream, 6, 0)} |->
         [bitstream |-> [rl.bitstream EXCEPT !.position =
                            Add32(rl.bitstream.position, rl.value)],
          decoder |-> ReadLZCLHeader(U8(rt.value), rl.value, rl.bitstream)]])])

\* an LZCLSubCodec_t after memset(state, 0, ...): type 0, a fixedState on a
\* null data pointer, 0 bits per symbol
LZCLSubCodecZero ==
    [codecType |-> 0, bitLength |-> 0,
     fixedState |-> [bitstream |-> [data |-> <<>>, position |-> 0], bitsPerSymbol |-> 0]]

\* runs of current type left is 0: the next run, of the given type
\* The mutant starts every run with the initial value.
NextLZCLRunSame(state, curRun) ==
    With([r \in {DecodeLZCLSymbol(state.decisionCodec)} |->
         [state EXCEPT !.curRun = state.initialValue,
                       !.runsLeft = r.value,
                       !.decisionCodec = r.codec]])

NextLZCLRun(state, curRun) ==
    With([r \in {DecodeLZCLSymbol(state.decisionCodec)} |->
         [state EXCEPT !.curRun = curRun,
                       !.runsLeft = r.value,
                       !.decisionCodec = r.codec]])

GetLZCLDecision(state) ==
    IF state.useDecisionRuns = 0
    THEN With([r \in {DecodeLZCLSymbol(state.decisionCodec)} |->
              [state |-> [state EXCEPT !.decisionCodec = r.codec], value |-> r.value]])
    ELSE With([s1 \in {IF state.curRun = -1 THEN NextLZCLRun(state, state.initialValue)
              ELSE state} |->
         With([s2 \in {IF s1.runsLeft = 0 THEN NextLZCLRun(s1, 1 - s1.curRun)
              ELSE s1} |->
              [state |-> [s2 EXCEPT !.runsLeft = Sub32(s2.runsLeft, 1)],
               value |-> s2.curRun]])])

GetLZCLDecodedToken(state) ==
    IF state.useTokens = 0
    THEN With([rd \in {DecodeLZCLSymbol(state.distanceCodec)} |->
         With([rl \in {DecodeLZCLSymbol(state.lengthCodec)} |->
              [state |-> [state EXCEPT !.distanceCodec = rd.codec,
                                       !.lengthCodec = rl.codec],
               distance |-> rd.value,
               length |-> Add32(rl.value, state.actualMinLength)]])])
    ELSE With([rt \in {DecodeLZCLSymbol(state.distanceCodec)} |->
         With([base \in {Add32(state.actualMaxDistance, 1)} |->
              [state |-> [state EXCEPT !.distanceCodec = rt.codec],
               distance |-> Mod32(rt.value, base),
               length |-> Add32(Div32(rt.value, base), state.actualMinLength)]])])

\* the fields of an LZCLState_t nobody has written yet
LZCLStateUnset ==
    [actualMinLength |-> "unset", actualMaxDistance |-> "unset", byteLength |-> "unset",
     byteIndex |-> "unset", bitstream |-> "unset", useDecisionRuns |-> "unset",
     decisionCodec |-> "unset", literalCodec |-> "unset", useTokens |-> "unset",
     distanceCodec |-> "unset", lengthCodec |-> "unset", initialValue |-> "unset",
     dest |-> "unset", destLength |-> "unset", curRun |-> "unset", runsLeft |-> "unset"]

\* Read the header for the compression algorithm.  memset(state, 0, ...) and
\* the assignments that follow it: no assignment is to useTokens.
DecompressLZCLStart(state, source, dest, destLength) ==
    With([r1 \in {DecodeUniversalLomont1(InitializeBitstream(source), 6, 0)} |->
    With([r2 \in {DecodeUniversalLomont1(r1.bitstream, 10, 0)} |->
    With([r3 \in {DecodeUniversalLomont1(r2.bitstream, 2, 0)} |->
    With([rr \in {ReadBitstream(r3.bitstream, 1)} |->
    With([ri \in {IF rr.value = 0 THEN [bitstream |-> rr.bitstream, value |-> 0]
         ELSE ReadBitstream(rr.bitstream, 1)} |->
    With([decision \in {ReadLZCLItem(ri.bitstream)} |->
    With([literal \in {ReadLZCLItem(decision.bitstream)} |->
    With([rt \in {ReadBitstream(literal.bitstream, 1)} |->
    With([first \in {ReadLZCLItem(rt.bitstream)} |->
    With([second \in {IF rt.value = 0
         THEN [bitstream |-> first.bitstream, decoder |-> LZCLSubCodecZero]
         ELSE ReadLZCLItem(first.bitstream)} |->
         [state |->
             [actualMinLength |-> r3.value,
              actualMaxDistance |-> r2.value,
              byteLength |-> r1.value,
              byteIndex |-> 0,
              bitstream |-> second.bitstream,
              useDecisionRuns |-> IF rr.value = 0 THEN 0 ELSE 1,
              decisionCodec |-> decision.decoder,
              literalCodec |-> literal.decoder,
              useTokens |-> 0,
              distanceCodec |-> first.decoder,
              lengthCodec |-> second.decoder,
              initialValue |-> ri.value,
              dest |-> dest,
              destLength |-> destLength,
              curRun |-> -1,
              runsLeft |-> 0],
          value |-> r1.value]])])])])])])])])])])

RECURSIVE LZCLCopyLoop(_, _, _, _, _)
\* for (i = 0; i < length; ++i) { dest[byteIndex % destLength] =
\*     dest[(byteIndex + delta) % destLength]; byteIndex++; }
LZCLCopyLoop(state, delta, i, length, written) ==
    IF Less32(i, length)
    THEN With([byte \in {state.dest[Mod32(Add32(state.byteIndex, delta), state.destLength) + 1]} |->
         With([s1 \in {StoreByte(state, byte)} |->
              LZCLCopyLoop(s1, delta, Add32(i, 1), length, Append(written, byte))])])
    ELSE [state |-> state, value |-> length, written |-> written]

\* The mutant copies the run as a block.
LZCLCopyRunAsBlock(state, distance, length) == BlockCopyRun(state, distance, length)

\* copy run
LZCLCopyRun(state, distance, length) ==
    LZCLCopyLoop(state, Sub32(Sub32(state.destLength, distance), 1), 0, length, <<>>)

\* returns number of items decompressed, or CL_COMPRESSOR_END_TOKEN when no more
DecompressLZCLBlock(state) ==
    IF ~ Less32(state.byteIndex, state.byteLength)
    THEN [state |-> state, value |-> CL_COMPRESSOR_END_TOKEN, written |-> <<>>]
    ELSE With([rd \in {GetLZCLDecision(state)} |->
              IF rd.value = 0
              THEN With([rs \in {DecodeLZCLSymbol(rd.state.literalCodec)} |->
                        [state |-> StoreByte([rd.state EXCEPT !.literalCodec = rs.codec],
                                             U8(rs.value)),
                         value |-> 1,
                         written |-> <<U8(rs.value)>>]])
              ELSE With([rt \in {GetLZCLDecodedToken(rd.state)} |->
                        LZCLCopyRun(rt.state, rt.distance, rt.length)])])

RECURSIVE DecompressLZCLLoop(_)
\* while (symbolCount != CL_COMPRESSOR_END_TOKEN) symbolCount = DecompressLZCLBlock(&state);
DecompressLZCLLoop(state) ==
    With([r \in {DecompressLZCLBlock(state)} |->
         IF r.value # CL_COMPRESSOR_END_TOKEN THEN DecompressLZCLLoop(r.state)
         ELSE [state |-> r.state, dest |-> r.state.dest, value |-> r.state.byteIndex]])

\* decompress, return bytes decoded
DecompressLZCL(source, dest, destLength) ==
    DecompressLZCLLoop(DecompressLZCLStart(LZCLStateUnset, source, dest, destLength).state)

(***************************************************************************)
(* The format of a Lomont1 code, stated on the stream and not by the       *)
(* decoder's loop: where its groups lie and how wide their chunks are.     *)
(***************************************************************************)
\* chunk size of group i (0 = first): the closed form of the code's update
GroupSize(chunkSize, deltaChunk, i) ==
    IF deltaChunk = 0 THEN chunkSize
    ELSE IF chunkSize + i * deltaChunk <= 0 THEN 1 ELSE chunkSize + i * deltaChunk

RECURSIVE GroupShift(_, _, _)
\* total size of the chunks before group i
GroupShift(chunkSize, deltaChunk, i) ==
    IF i = 0 THEN 0
    ELSE GroupShift(chunkSize, deltaChunk, i - 1) + GroupSize(chunkSize, deltaChunk, i - 1)

\* bit position of group i's continuation bit, for a code that starts at p
GroupStart(p, chunkSize, deltaChunk, i) == p + i + GroupShift(chunkSize, deltaChunk, i)

\* stream bit i: bit 0 is the most significant bit of data[0]
StreamBit(data, i) == BitOf(data[(i \div 8) + 1], 7 - (i % 8))

RECURSIVE LastGroupFrom(_, _, _, _, _)
\* index of the first group at or after i whose continuation bit is 0,
\* or -1 when the code runs past the end of data
LastGroupFrom(data, p, chunkSize, deltaChunk, i) ==
    IF GroupStart(p, chunkSize, deltaChunk, i + 1) > 8 * Len(data) THEN -1
    ELSE IF StreamBit(data, GroupStart(p, chunkSize, deltaChunk, i)) = 0 THEN i
    ELSE LastGroupFrom(data, p, chunkSize, deltaChunk, i + 1)

LastGroup(data, p, chunkSize, deltaChunk) == LastGroupFrom(data, p, chunkSize, deltaChunk, 0)

(***************************************************************************)
(* The paired compressor's side of the format (the compressor is not part  *)
(* of the decoder's sources): the bit writer and the Lomont1 encoder, the  *)
(* inverse of section 4.2 of the specification.  They only build inputs.   *)
(***************************************************************************)
RECURSIVE BitsOf(_, _)
\* the low n bits of v, most significant first
BitsOf(v, n) == IF n = 0 THEN <<>> ELSE Append(BitsOf(v \div 2, n - 1), v % 2)

\* bits, most significant first, into bytes; the last byte is padded with 0
Pack(bits) ==
    [i \in 1..((Len(bits) + 7) \div 8) |->
        LET bitAt(j) == IF j <= Len(bits) THEN bits[j] ELSE 0
        IN  bitAt(8 * i - 7) * 128 + bitAt(8 * i - 6) * 64 + bitAt(8 * i - 5) * 32
            + bitAt(8 * i - 4) * 16 + bitAt(8 * i - 3) * 8 + bitAt(8 * i - 2) * 4
            + bitAt(8 * i - 1) * 2 + bitAt(8 * i)]

RECURSIVE EncodeGroupsFrom(_, _, _, _)
\* the groups (continuation bit, chunk) with the given chunk values, the
\* first of them being group i of the code
EncodeGroupsFrom(chunks, chunkSize, deltaChunk, i) ==
    IF chunks = <<>> THEN <<>>
    ELSE <<IF Len(chunks) > 1 THEN 1 ELSE 0>>
         \o BitsOf(Head(chunks), GroupSize(chunkSize, deltaChunk, i))
         \o EncodeGroupsFrom(Tail(chunks), chunkSize, deltaChunk, i + 1)

EncodeGroups(chunks, chunkSize, deltaChunk) == EncodeGroupsFrom(chunks, chunkSize, deltaChunk, 0)

RECURSIVE ChunksFrom(_, _, _, _)
\* the chunk values of v (0 <= v < 2^31), least significant chunk first
ChunksFrom(v, chunkSize, deltaChunk, i) ==
    LET width == GroupSize(chunkSize, deltaChunk, i)
        chunk == IF width > 30 THEN v ELSE v % (2 ^ width)
        rest == IF width > 30 THEN 0 ELSE v \div (2 ^ width)
    IN  IF rest = 0 THEN <<chunk>>
        ELSE <<chunk>> \o ChunksFrom(rest, chunkSize, deltaChunk, i + 1)

EncodeLomont1(v, chunkSize, deltaChunk) ==
    EncodeGroups(ChunksFrom(v, chunkSize, deltaChunk, 0), chunkSize, deltaChunk)

RECURSIVE Concat(_)
\* the sequences of a sequence, one after the other
Concat(seqs) == IF seqs = <<>> THEN <<>> ELSE Head(seqs) \o Concat(Tail(seqs))

RECURSIVE Width(_)
\* bits needed to write x; 1 for 0
Width(x) == IF x < 2 THEN 1 ELSE 1 + Width(x \div 2)

Ones(n) == [i \in 1..n |-> 1]

\* A Huffman codebook is [bitsPerSymbol, bitsPerCodelengthCount,
\* minCodewordLength, rows], rows[k] being the symbols of the codewords of
\* length minCodewordLength + k - 1; a message is a sequence of <<k, index>>,
\* the codeword of symbol rows[k][index + 1].
RECURSIVE FirstCode(_, _)
\* the first codeword of row k: 0 for the first row, 2 * (first + count) after
FirstCode(rows, k) ==
    IF k = 1 THEN 0 ELSE 2 * (FirstCode(rows, k - 1) + Len(rows[k - 1]))

EncodeHuffmanHeader(book) ==
    EncodeLomont1(book.bitsPerSymbol - 1, 3, 0)
    \o EncodeLomont1(book.bitsPerCodelengthCount - 1, 3, 0)
    \o EncodeLomont1(book.minCodewordLength - 1, 2, 0)
    \o EncodeLomont1(Len(book.rows) - 2, 4, -1)
    \o Concat([k \in 1..Len(book.rows) |->
                  BitsOf(Len(book.rows[k]), book.bitsPerCodelengthCount)
                  \o Concat([j \in 1..Len(book.rows[k]) |->
                                BitsOf(book.rows[k][j], book.bitsPerSymbol)])])

EncodeHuffmanCodes(book, message) ==
    Concat([m \in 1..Len(message) |->
              BitsOf(FirstCode(book.rows, message[m][1]) + message[m][2],
                     book.minCodewordLength + message[m][1] - 1)])

EncodeHuffman(book, message) ==
    EncodeLomont1(Len(message), 6, 0) \o EncodeHuffmanHeader(book)
    \o EncodeHuffmanCodes(book, message)

\* the symbols a message stands for
HuffmanSymbols(book, message) ==
    [m \in 1..Len(message) |-> book.rows[message[m][1]][message[m][2] + 1]]

RECURSIVE EncodeBASCFrom(_, _, _)
\* the entries of the count table from entry i on, b being the width of the
\* entry before
EncodeBASCFrom(counts, i, b) ==
    IF i > Len(counts) THEN <<>>
    ELSE LET x == counts[i]
             bi == Width(x)
         IN  (IF bi <= b THEN <<0>> \o BitsOf(x, b)
              ELSE <<1>> \o Ones(bi - b - 1) \o <<0>> \o BitsOf(x, bi - 1))
             \o EncodeBASCFrom(counts, i + 1, bi)

EncodeBASC(counts) ==
    EncodeLomont1(Len(counts), 6, 0) \o EncodeLomont1(Width(counts[1]), 6, 0)
    \o BitsOf(counts[1], Width(counts[1]))
    \o EncodeBASCFrom(counts, 2, Width(counts[1]))

\* symbol min, symbol max, table bit length, table
EncodeArithmeticTable(symbolMin, counts) ==
    EncodeLomont1(symbolMin, 6, 0) \o EncodeLomont1(symbolMin + Len(counts) - 1, 6, 0)
    \o EncodeLomont1(Len(EncodeBASC(counts)), 6, 0) \o EncodeBASC(counts)

\* total, bit length (table and coded bits), table, coded bits
EncodeArithmetic(total, symbolMin, counts, body) ==
    EncodeLomont1(total, 6, 0)
    \o EncodeLomont1(Len(EncodeArithmeticTable(symbolMin, counts)) + Len(body), 8, -1)
    \o EncodeArithmeticTable(symbolMin, counts) \o body

\* An LZ77 item is [lit |-> byte] or [length |-> l, distance |-> d]; d is the
\* distance field of the token, a look-back of d + 1 bytes.
IsLiteral(item) == "lit" \in DOMAIN item

LZ77Token(item, minLength, maxDistance) ==
    (item.length - minLength) * (maxDistance + 1) + item.distance

EncodeLZ77(byteLength, format, items) ==
    EncodeLomont1(byteLength, 6, 0)
    \o EncodeLomont1(format.bitsPerSymbol - 1, 3, 0)
    \o EncodeLomont1(format.bitsPerToken - 1, 5, 0)
    \o EncodeLomont1(format.minLength, 2, 0)
    \o EncodeLomont1(format.maxToken, 25, -10)
    \o EncodeLomont1(format.maxDistance, 14, -7)
    \o Concat([i \in 1..Len(items) |->
                  IF IsLiteral(items[i])
                  THEN <<0>> \o BitsOf(items[i].lit, format.bitsPerSymbol)
                  ELSE <<1>> \o BitsOf(LZ77Token(items[i], format.minLength,
                                                 format.maxDistance),
                                       format.bitsPerToken)])

\* the output the items stand for, in an unbounded linear buffer; a look-back
\* before the first byte has no byte, and yields the mark -1
RECURSIVE LinearCopy(_, _, _)
LinearCopy(bytes, lookBack, length) ==
    IF length = 0 THEN bytes
    ELSE LinearCopy(Append(bytes, IF lookBack <= Len(bytes)
                                  THEN bytes[Len(bytes) - lookBack + 1] ELSE -1),
                    lookBack, length - 1)

RECURSIVE LinearOutput(_, _)
LinearOutput(items, n) ==
    IF n = 0 THEN <<>>
    ELSE LET before == LinearOutput(items, n - 1)
         IN  IF IsLiteral(items[n]) THEN Append(before, items[n].lit)
             ELSE LinearCopy(before, items[n].distance + 1, items[n].length)

\* LZCL sub-codec items: type, bit length, header, body
LZCLItem(type, header, body) ==
    type \o EncodeLomont1(Len(header) + Len(body), 6, 0) \o header \o body

FixedItem(bitsPerSymbol, symbols) ==
    LZCLItem(<<0, 0>>, EncodeLomont1(bitsPerSymbol - 1, 3, 0),
             Concat([i \in 1..Len(symbols) |-> BitsOf(symbols[i], bitsPerSymbol)]))

HuffmanItem(book, message) ==
    LZCLItem(<<1, 0>>, EncodeHuffmanHeader(book), EncodeHuffmanCodes(book, message))

\* truncated binary code of r for the range n
EncodeTruncated(r, n) ==
    LET k == Width(n)
        u == (2 ^ k) - n
    IN  IF r < u THEN BitsOf(r, k - 1) ELSE BitsOf(r + u, k)

GolombItem(parameter, symbols) ==
    LZCLItem(<<1, 1>>, EncodeLomont1(parameter, 6, 0),
             Concat([i \in 1..Len(symbols) |->
                       Ones(symbols[i] \div parameter) \o <<0>>
                       \o EncodeTruncated(symbols[i] % parameter, parameter)]))

IsCopy(item) == ~ IsLiteral(item)

RECURSIVE RunLengths(_)
\* the lengths of the maximal runs of equal decisions
RunLengths(decisions) ==
    IF decisions = <<>> THEN <<>>
    ELSE LET rest == RunLengths(Tail(decisions))
         IN  IF Len(decisions) > 1 /\ decisions[2] = decisions[1]
             THEN <<Head(rest) + 1>> \o Tail(rest)
             ELSE <<1>> \o rest

\* An LZCL stream for the items: layout is "token" or "pair", decisions is
\* "bits" or "runs", literals is "fixed" or "huffman" (with the given book,
\* whose first row holds one symbol and whose second row holds the others).
LZCLDecisionPart(form, items) ==
    LET decisions == [i \in 1..Len(items) |-> IF IsLiteral(items[i]) THEN 0 ELSE 1]
    IN  IF form.decisions = "bits"
        THEN <<0>> \o FixedItem(1, decisions)
        ELSE <<1, IF decisions = <<>> THEN 0 ELSE decisions[1]>>
             \o GolombItem(form.runParameter, RunLengths(decisions))

LZCLLiteralPart(form, items) ==
    LET lits == SelectSeq(items, IsLiteral)
    IN  IF form.literals = "fixed"
        THEN FixedItem(8, [i \in 1..Len(lits) |-> lits[i].lit])
        ELSE HuffmanItem(form.book,
                         [i \in 1..Len(lits) |->
                             IF lits[i].lit = form.book.rows[1][1] THEN <<1, 0>>
                             ELSE <<2, CHOOSE j \in 0..(Len(form.book.rows[2]) - 1) :
                                          form.book.rows[2][j + 1] = lits[i].lit>>])

LZCLCopyPart(form, items) ==
    LET copies == SelectSeq(items, IsCopy)
    IN  IF form.layout = "token"
        THEN <<0>> \o FixedItem(form.bitsPerToken,
                                [i \in 1..Len(copies) |->
                                    LZ77Token(copies[i], form.minLength, form.maxDistance)])
        ELSE <<1>> \o FixedItem(Width(form.maxDistance),
                                [i \in 1..Len(copies) |-> copies[i].distance])
             \o GolombItem(form.lengthParameter,
                           [i \in 1..Len(copies) |-> copies[i].length - form.minLength])

EncodeLZCL(byteLength, form, items) ==
    EncodeLomont1(byteLength, 6, 0)
    \o EncodeLomont1(form.maxDistance, 10, 0)
    \o EncodeLomont1(form.minLength, 2, 0)
    \o LZCLDecisionPart(form, items)
    \o LZCLLiteralPart(form, items)
    \o LZCLCopyPart(form, items)

(***************************************************************************)
(* The streams of the four decompressors and the caller's buffers.        *)
(***************************************************************************)
MaxMessage == 2      \* codewords in a Huffman message
BodyBits == 4        \* coded bits in an arithmetic stream
MaxDest == 4         \* the destination sizes are 1..MaxDest, and 16
MaxLiterals == 3     \* literals before the copy of an LZ77 stream
MaxLength == 4       \* largest length of that copy
MaxExtraCalls == 2   \* symbol calls a caller makes after the last symbol

DestLengths == (1..MaxDest) \cup {16}

\* the caller's destination buffer before any call
InitialDest(n) == [i \in 1..n |-> 0]

\* lengths 2..4 with 0, 2 and 4 codewords
CanonicalWalkBook ==
    [bitsPerSymbol |-> 8, bitsPerCodelengthCount |-> 3, minCodewordLength |-> 2,
     rows |-> << <<>>, <<0, 1>>, <<2, 3, 4, 5>> >>]

\* a: 0, b: 10, c: 11
LetterBook ==
    [bitsPerSymbol |-> 8, bitsPerCodelengthCount |-> 2, minCodewordLength |-> 1,
     rows |-> << <<97>>, <<98, 99>> >>]

Codewords(book) ==
    UNION {{<<k, j>> : j \in 0..(Len(book.rows[k]) - 1)} : k \in 1..Len(book.rows)}

Messages(book) == UNION {[1..n -> Codewords(book)] : n \in 0..MaxMessage}

HuffmanInputs ==
    UNION {{[codec |-> "huffman", book |-> book, message |-> m,
             data |-> Pack(EncodeHuffman(book, m))] : m \in Messages(book)} :
              book \in {CanonicalWalkBook, LetterBook}}

\* count tables whose total is a power of two: every step of the decoder
\* divides its range exactly, and every body is the code of some message
ArithmeticTables ==
    {[symbolMin |-> 97, counts |-> <<2, 2>>],
     [symbolMin |-> 97, counts |-> <<1, 3>>],
     [symbolMin |-> 97, counts |-> <<1, 0, 1, 2>>],
     [symbolMin |-> 0, counts |-> <<1, 1>>],
     [symbolMin |-> 65, counts |-> <<4>>]}

RECURSIVE SumOf(_)
SumOf(counts) == IF counts = <<>> THEN 0 ELSE Head(counts) + SumOf(Tail(counts))

ArithmeticInputs ==
    {[codec |-> "arithmetic", total |-> SumOf(t.counts), symbolMin |-> t.symbolMin,
      counts |-> t.counts, body |-> body,
      data |-> Pack(EncodeArithmetic(SumOf(t.counts), t.symbolMin, t.counts, body))] :
         t \in ArithmeticTables, body \in [1..BodyBits -> {0, 1}]}

LZ77Format ==
    [bitsPerSymbol |-> 8, bitsPerToken |-> 4, minLength |-> 2, maxToken |-> 15,
     maxDistance |-> 3]

Literals(n) == [i \in 1..n |-> [lit |-> 96 + i]]

\* literals a, b, ..., one copy, and one literal or none after it; no items;
\* two copies
ItemLists ==
    {Literals(n) \o <<[length |-> l, distance |-> d]>> \o tail :
        n \in 1..MaxLiterals, l \in 2..MaxLength, d \in 0..3,
        tail \in {<<>>, <<[lit |-> 122]>>}}
    \cup {<<>>, Literals(2),
          <<[lit |-> 97], [lit |-> 98], [length |-> 2, distance |-> 1], [lit |-> 99],
            [length |-> 3, distance |-> 2]>>}

LZ77Inputs ==
    {[codec |-> "lz77", format |-> LZ77Format, items |-> items,
      data |-> Pack(EncodeLZ77(Len(LinearOutput(items, Len(items))), LZ77Format, items))] :
         items \in ItemLists}

LZCLForms ==
    {[layout |-> layout, decisions |-> decisions, literals |-> literals,
      book |-> LetterBook, runParameter |-> 2, lengthParameter |-> 3,
      bitsPerToken |-> 4, minLength |-> 2, maxDistance |-> 3] :
         layout \in {"token", "pair"}, decisions \in {"bits", "runs"},
         literals \in {"fixed", "huffman"}}

LZCLItemLists ==
    {<<[lit |-> 97], [lit |-> 98], [length |-> 3, distance |-> 1]>>,
     <<[lit |-> 97], [lit |-> 98], [lit |-> 99], [length |-> 2, distance |-> 2],
       [lit |-> 98]>>,
     <<[lit |-> 97], [length |-> 4, distance |-> 0]>>,
     <<[lit |-> 97], [lit |-> 98]>>}

\* the source buffer ends with two bytes after the stream
LZCLInputs ==
    {[codec |-> "lzcl", form |-> form, items |-> items,
      data |-> Pack(EncodeLZCL(Len(LinearOutput(items, Len(items))), form, items))
               \o <<0, 0>>] :
         form \in LZCLForms, items \in LZCLItemLists}

Inputs == HuffmanInputs \cup ArithmeticInputs \cup LZ77Inputs \cup LZCLInputs

(***************************************************************************)
(* Calls on a bare bitstream.                                              *)
(***************************************************************************)
NoCall == [op |-> "none"]
NoOneShot == [op |-> "none"]

\* the bytes of the exhaustively enumerated arrays
RawBytes == {165, 1}
RawArrays == [1..RawLen -> RawBytes]

\* the (chunkSize, deltaChunk) pairs the decoder uses, and two more
LomontParams ==
    {<<6, 0>>, <<3, 0>>, <<2, 0>>, <<4, -1>>, <<5, 0>>, <<25, -10>>, <<14, -7>>,
     <<8, -1>>, <<10, 0>>, <<1, 1>>, <<2, -1>>}
LomontValues == {0, 1, 63, 64, 700, 2053, 2 ^ 21 + 3, 2 ^ 25 + 2 ^ 24 + 9, 2 ^ 30 + 5}

\* streams that no encoder of a 32-bit value writes: more chunk bits than 32
WideGroups ==
    {[chunks |-> <<0, 16384>>, chunkSize |-> 25, deltaChunk |-> -10],
     [chunks |-> <<0, 0, 0, 1>>, chunkSize |-> 25, deltaChunk |-> -10],
     [chunks |-> <<0, 0, 0, 0, 0, 0, 0, 1, 1>>, chunkSize |-> 8, deltaChunk |-> -1],
     [chunks |-> <<0, 0, 0, 0, 0, 4>>, chunkSize |-> 8, deltaChunk |-> -1]}

BitsInputs ==
    {[codec |-> "bits", kind |-> "raw", data |-> d] : d \in RawArrays}
    \cup {[codec |-> "bits", kind |-> "lomont", value |-> v,
           chunkSize |-> p[1], deltaChunk |-> p[2],
           data |-> Pack(EncodeLomont1(v, p[1], p[2]))] :
              v \in LomontValues, p \in LomontParams}
    \cup {[codec |-> "bits", kind |-> "groups", chunks |-> g.chunks,
           chunkSize |-> g.chunkSize, deltaChunk |-> g.deltaChunk,
           data |-> Pack(EncodeGroups(g.chunks, g.chunkSize, g.deltaChunk))] :
              g \in WideGroups}
    \cup ArithmeticInputs

\* a bitstream at a position of the caller's, or the state of an arithmetic
\* decoder before its start call
InitBits ==
    /\ input \in BitsInputs
    /\ callerSource = input.data
    /\ callerDestLength = 0
    /\ IF input.codec = "arithmetic"
       THEN callerState = ArithmeticStateUnset /\ pc = "idle"
       ELSE /\ \E p \in (IF input.kind = "raw" THEN 0..MaxStart ELSE {0}) :
                  callerState = [bitstream |-> [data |-> callerSource, position |-> p]]
            /\ pc = "started"
    /\ out = <<>>
    /\ calls = 0
    /\ ret = NoCall
    /\ size = NoCall
    /\ oneshot = NoOneShot

ReadBitstreamCall ==
    /\ pc = "started"
    /\ input.codec = "bits"
    /\ \E bitLength \in 0..MaxReadBits :
          /\ callerState.bitstream.position + bitLength <= 8 * Len(callerSource)
          /\ \E r \in {ReadBitstream(callerState.bitstream, bitLength)} :
                 /\ callerState' = [callerState EXCEPT !.bitstream = r.bitstream]
                 /\ ret' = [op |-> "ReadBitstream", position |-> callerState.bitstream.position,
                            bitLength |-> bitLength, value |-> r.value]
    /\ pc' = "ended"
    /\ UNCHANGED <<input, callerSource, callerDestLength, out, calls, size, oneshot>>

\* the caller's position variable holds from; after is its value on return
ReadFromBitstreamPositionCall ==
    /\ pc = "started"
    /\ input.codec = "bits"
    /\ input.kind = "raw"
    /\ \E from \in 0..MaxStart, bitLength \in 0..MaxReadBits :
          /\ from + bitLength <= 8 * Len(callerSource)
          /\ \E r \in {ReadFromBitstreamPosition(callerState.bitstream, from, bitLength)} :
                 /\ callerState' = [callerState EXCEPT !.bitstream = r.bitstream]
                 /\ ret' = [op |-> "ReadFromBitstreamPosition",
                            position |-> callerState.bitstream.position,
                            from |-> from, bitLength |-> bitLength,
                            after |-> r.position, value |-> r.value]
    /\ pc' = "ended"
    /\ UNCHANGED <<input, callerSource, callerDestLength, out, calls, size, oneshot>>

\* the lookup of a started arithmetic decoder, for a cumCount below total
LookupArithmeticLowMemoryCountCall ==
    /\ pc = "started"
    /\ input.codec = "arithmetic"
    /\ \E cumCount \in 0..(callerState.total - 1) :
          \E r \in {LookupArithmeticLowMemoryCount(callerState, cumCount)} :
              /\ callerState' = r.state
              /\ ret' = [op |-> "LookupArithmeticLowMemoryCount", before |-> callerState,
                         cumCount |-> cumCount, value |-> r.symbol,
                         lowCount |-> r.lowCount, highCount |-> r.highCount]
    /\ pc' = "ended"
    /\ UNCHANGED <<input, callerSource, callerDestLength, out, calls, size, oneshot>>

\* shift of the last group of the code at p is 32 or more: undefined in C
ShiftUndefined(data, p, chunkSize, deltaChunk) ==
    GroupShift(chunkSize, deltaChunk, LastGroup(data, p, chunkSize, deltaChunk)) >= 32

DecodeUniversalLomont1Call ==
    /\ pc = "started"
    /\ input.codec = "bits"
    /\ \E p \in LomontParams :
          /\ LastGroup(callerSource, callerState.bitstream.position, p[1], p[2]) # -1
          /\ \E shiftBuild \in
                 (IF ShiftUndefined(callerSource, callerState.bitstream.position, p[1], p[2])
                  THEN ShiftBuilds ELSE {"defined"}) :
                \E r \in {Lomont1Loop(callerState.bitstream, p[1], p[2], 0, 0, shiftBuild)} :
                    /\ callerState' = [callerState EXCEPT !.bitstream = r.bitstream]
                    /\ ret' = [op |-> "DecodeUniversalLomont1",
                               position |-> callerState.bitstream.position,
                               chunkSize |-> p[1], deltaChunk |-> p[2],
                               shiftBuild |-> shiftBuild, value |-> r.value]
    /\ pc' = "ended"
    /\ UNCHANGED <<input, callerSource, callerDestLength, out, calls, size, oneshot>>

\* bit j (0 = least significant) of the chunk of group i of the last call
ChunkBit(i, j) ==
    StreamBit(callerSource, GroupStart(ret.position, ret.chunkSize, ret.deltaChunk, i)
                      + GroupSize(ret.chunkSize, ret.deltaChunk, i) - j)

\* the groups of the last call
RetGroups == 0..LastGroup(callerSource, ret.position, ret.chunkSize, ret.deltaChunk)
RetShift(i) == GroupShift(ret.chunkSize, ret.deltaChunk, i)
RetSize(i) == GroupSize(ret.chunkSize, ret.deltaChunk, i)

\* no chunk has a set bit that chunk << shift moves to bit 32 or above
NoLostBit ==
    \A i \in RetGroups : \A j \in 0..(RetSize(i) - 1) :
        RetShift(i) + j >= 32 => ChunkBit(i, j) = 0

\* every chunk << shift is defined in C
ShiftsDefined == \A i \in RetGroups : RetShift(i) < 32

\* the returned value has the chunks in its bit fields and 0 above them
ValueHoldsChunks ==
    /\ \A i \in RetGroups : \A j \in 0..(RetSize(i) - 1) :
          RetShift(i) + j <= 31 => BitOf(ret.value, RetShift(i) + j) = ChunkBit(i, j)
    /\ \A k \in 0..31 :
          k >= RetShift(LastGroup(callerSource, ret.position, ret.chunkSize, ret.deltaChunk) + 1)
             => BitOf(ret.value, k) = 0

\* the cursor stands after the first group whose continuation bit is 0
StopsAfterLastGroup ==
    callerState.bitstream.position =
        GroupStart(ret.position, ret.chunkSize, ret.deltaChunk,
                   LastGroup(callerSource, ret.position, ret.chunkSize, ret.deltaChunk) + 1)

\* C1: for every byte array, start position p and 0 <= k <= 32, ReadBitstream(k)
\* returns the unsigned integer whose bit k-1-j is the stream bit p+j (stream bit
\* 0 is the most significant bit of data[0]) and whose other bits are 0, and
\* advances the position by exactly k; 8 bits read at position 0 of a stream
\* whose first byte is 0xA5 are 0xA5.
C1_ReadBitstreamMSBFirst ==
    (ret.op = "ReadBitstream" /\ ret.bitLength <= 32) =>
        /\ callerState.bitstream.position = ret.position + ret.bitLength
        /\ \A j \in 0..(ret.bitLength - 1) :
              BitOf(ret.value, ret.bitLength - 1 - j) = StreamBit(callerSource, ret.position + j)
        /\ \A i \in ret.bitLength..31 : BitOf(ret.value, i) = 0
        /\ (ret.position = 0 /\ ret.bitLength = 8 /\ callerSource[1] = 165) => ret.value = 165

C1_Witness ==
    /\ ret.op = "ReadBitstream"
    /\ ret.position = 0
    /\ ret.bitLength = 8
    /\ callerSource[1] = 165
    /\ ret.value = 165

\* C2: ReadFromBitstreamPosition(pos, k) returns the value ReadBitstream(k)
\* returns from position pos and leaves pos + k in the caller's position
\* variable, and the position of the bitstream is after the call what it was
\* before it; LookupArithmeticLowMemoryCount scans the count table and leaves
\* the position of the decoder's bitstream, and the rest of its state, as they
\* were.
C2_PositionRestored ==
    /\ ret.op = "ReadFromBitstreamPosition" =>
          /\ ret.value = ReadBitstream([data |-> callerSource, position |-> ret.from],
                                       ret.bitLength).value
          /\ ret.after = ret.from + ret.bitLength
          /\ callerState.bitstream.position = ret.position
          /\ callerState.bitstream.data = callerSource
    /\ ret.op = "LookupArithmeticLowMemoryCount" =>
          /\ callerState.bitstream.position = ret.before.bitstream.position
          /\ callerState = ret.before

\* a lookup after two symbols, that read the table up to its second entry
C2_Witness ==
    /\ ret.op = "LookupArithmeticLowMemoryCount"
    /\ calls = 2
    /\ ret.lowCount > 0
    /\ ret.lowCount <= ret.cumCount /\ ret.cumCount < ret.highCount
    /\ ret.before.bitstream.position > ret.before.tableStartBitPosition
    /\ callerState.bitstream.position = ret.before.bitstream.position

\* C3 as stated: for every chunkSize >= 1, deltaChunk and stream,
\* DecodeUniversalLomont1 stops after the first group whose continuation bit is
\* 0 and returns the sum of chunk_i << shift_i.  The function returns a
\* uint32_t, which is that sum exactly when no chunk bit lands at bit 32 or
\* above and the low 32 bits hold the chunks.
C3_AsStated ==
    ret.op = "DecodeUniversalLomont1" =>
        StopsAfterLastGroup /\ NoLostBit /\ ValueHoldsChunks

\* C3, amended: the groups are (continuation bit, chunk of the current size),
\* the chunk size after group i is max(1, chunkSize + (i+1)*deltaChunk) when
\* deltaChunk # 0, the decoder stops after the first group whose continuation
\* bit is 0, and, when every shift is below 32 and no chunk bit is shifted to
\* bit 32 or above, the result is the sum of chunk_i << shift_i.  The code a
\* matching encoder wrote for a value below 2^31 decodes to that value; for
\* (4,-1) and (14,-7) the chunk size is 1 from the 4th and the 3rd group on.
C3_Lomont1 ==
    ret.op = "DecodeUniversalLomont1" =>
        /\ StopsAfterLastGroup
        /\ (ShiftsDefined /\ NoLostBit) => ValueHoldsChunks
        /\ (/\ input.kind = "lomont"
            /\ ret.position = 0
            /\ ret.chunkSize = input.chunkSize
            /\ ret.deltaChunk = input.deltaChunk)
           => (ShiftsDefined /\ NoLostBit /\ ret.value = input.value)
        /\ LET n == LastGroup(callerSource, ret.position, ret.chunkSize, ret.deltaChunk)
           IN  /\ (ret.chunkSize = 4 /\ ret.deltaChunk = -1 /\ n >= 3)
                  => callerState.bitstream.position = ret.position + 12 + 2 * (n - 2)
               /\ (ret.chunkSize = 14 /\ ret.deltaChunk = -7 /\ n >= 2)
                  => callerState.bitstream.position = ret.position + 23 + 2 * (n - 1)

\* a value of 12 bits written with (4,-1): groups of 4, 3, 2, 1, 1, 1 bits
C3_Witness ==
    /\ ret.op = "DecodeUniversalLomont1"
    /\ input.kind = "lomont"
    /\ input.value = 2053
    /\ ret.chunkSize = 4 /\ ret.deltaChunk = -1
    /\ input.chunkSize = 4 /\ input.deltaChunk = -1
    /\ ret.value = 2053
    /\ callerState.bitstream.position = 18

(***************************************************************************)
(* The four decompressors: the calls of a caller.                          *)
(***************************************************************************)
Init ==
    /\ input \in Inputs
    /\ callerSource = input.data
    /\ callerDestLength \in DestLengths
    /\ callerState = CASE input.codec = "huffman" -> HuffmanStateUnset
                       [] input.codec = "arithmetic" -> ArithmeticStateUnset
                       [] input.codec = "lz77" -> LZ77StateUnset
                       [] input.codec = "lzcl" -> LZCLStateUnset
    /\ out = <<>>
    /\ calls = 0
    /\ ret = NoCall
    /\ size = NoCall
    /\ oneshot = NoOneShot
    /\ pc = "idle"

\* GetDecompressedSize works on a bitstream of its own: position is where
\* that bitstream stands when the function returns
GetDecompressedSizeCall ==
    /\ size.op = "none"
    /\ \E r \in {GetDecompressedSize(callerSource)} :
           size' = [op |-> "GetDecompressedSize", value |-> r.value,
                    position |-> r.bitstream.position]
    /\ UNCHANGED <<input, callerSource, callerDestLength, callerState, out, calls, ret,
                   oneshot, pc>>

\* The one-shot calls work on a state of their own and on a buffer of
\* callerDestLength bytes of their own.
DecompressHuffmanCall ==
    /\ pc = "idle"
    /\ oneshot.op = "none"
    /\ input.codec = "huffman"
    /\ \E r \in {DecompressHuffman(callerSource, InitialDest(callerDestLength), callerDestLength)} :
           oneshot' = [op |-> "DecompressHuffman", trapped |-> FALSE, value |-> r.value,
                       dest |-> r.dest, beyond |-> <<>>, state |-> r.state]
    /\ UNCHANGED <<input, callerSource, callerDestLength, callerState, out, calls, ret,
                   size, pc>>

\* A store at dest[i] with i >= destLength is outside the caller's buffer,
\* which C leaves undefined: the bytes land behind the buffer and the call
\* returns ("overwrite"), or the call does not return ("trap").
DecompressArithmeticCall ==
    /\ pc = "idle"
    /\ oneshot.op = "none"
    /\ input.codec = "arithmetic"
    /\ \E r \in {DecompressArithmetic(callerSource, InitialDest(callerDestLength))} :
           \E outcome \in (IF r.beyond = <<>> THEN {"inside"} ELSE {"overwrite", "trap"}) :
              oneshot' = IF outcome = "trap"
                         THEN [op |-> "DecompressArithmetic", trapped |-> TRUE,
                               value |-> 0, dest |-> <<>>, beyond |-> <<>>,
                               state |-> ArithmeticStateUnset]
                         ELSE [op |-> "DecompressArithmetic", trapped |-> FALSE,
                               value |-> r.value, dest |-> r.dest, beyond |-> r.beyond,
                               state |-> r.state]
    /\ UNCHANGED <<input, callerSource, callerDestLength, callerState, out, calls, ret,
                   size, pc>>

DecompressLZ77Call ==
    /\ pc = "idle"
    /\ oneshot.op = "none"
    /\ input.codec = "lz77"
    /\ \E r \in {DecompressLZ77(callerSource, InitialDest(callerDestLength), callerDestLength)} :
           oneshot' = [op |-> "DecompressLZ77", trapped |-> FALSE, value |-> r.value,
                       dest |-> r.dest, beyond |-> <<>>, state |-> r.state]
    /\ UNCHANGED <<input, callerSource, callerDestLength, callerState, out, calls, ret,
                   size, pc>>

DecompressLZCLCall ==
    /\ pc = "idle"
    /\ oneshot.op = "none"
    /\ input.codec = "lzcl"
    /\ \E r \in {DecompressLZCL(callerSource, InitialDest(callerDestLength), callerDestLength)} :
           oneshot' = [op |-> "DecompressLZCL", trapped |-> FALSE, value |-> r.value,
                       dest |-> r.dest, beyond |-> <<>>, state |-> r.state]
    /\ UNCHANGED <<input, callerSource, callerDestLength, callerState, out, calls, ret,
                   size, pc>>

DecompressHuffmanStartCall ==
    /\ pc = "idle"
    /\ input.codec = "huffman"
    /\ callerState' = DecompressHuffmanStart(callerState, callerSource)
    /\ ret' = [op |-> "DecompressHuffmanStart", value |-> callerState'.byteLength]
    /\ pc' = "started"
    /\ UNCHANGED <<input, callerSource, callerDestLength, out, calls, size, oneshot>>

\* the caller asks for exactly as many symbols as the start call returned
DecompressArithmeticStartCall ==
    /\ pc = "idle"
    /\ input.codec = "arithmetic"
    /\ \E r \in {DecompressArithmeticStart(callerState, callerSource)} :
           /\ callerState' = r.state
           /\ ret' = [op |-> "DecompressArithmeticStart", value |-> r.value]
           /\ pc' = IF r.value = 0 THEN "ended" ELSE "started"
    /\ UNCHANGED <<input, callerSource, callerDestLength, out, calls, size, oneshot>>

DecompressLZ77StartCall ==
    /\ pc = "idle"
    /\ input.codec = "lz77"
    /\ callerState' = DecompressLZ77Start(callerState, callerSource,
                                          InitialDest(callerDestLength), callerDestLength)
    /\ ret' = [op |-> "DecompressLZ77Start", value |-> callerState'.byteLength]
    /\ pc' = "started"
    /\ UNCHANGED <<input, callerSource, callerDestLength, out, calls, size, oneshot>>

DecompressLZCLStartCall ==
    /\ pc = "idle"
    /\ input.codec = "lzcl"
    /\ \E r \in {DecompressLZCLStart(callerState, callerSource, InitialDest(callerDestLength), callerDestLength)} :
           /\ callerState' = r.state
           /\ ret' = [op |-> "DecompressLZCLStart", value |-> r.value]
    /\ pc' = "started"
    /\ UNCHANGED <<input, callerSource, callerDestLength, out, calls, size, oneshot>>

\* The symbol and block calls: before is the state the call started from, and
\* out collects the bytes the calls deliver.  A caller may go on calling after
\* the end of the stream (pc is "over" then).
DecompressHuffmanSymbolCall ==
    /\ pc \in {"started", "ended", "over"}
    /\ pc = "started" \/ calls < Len(out) + 1 + MaxExtraCalls
    /\ input.codec = "huffman"
    /\ \E r \in {DecompressHuffmanSymbol(callerState)} :
           /\ callerState' = r.state
           /\ ret' = [op |-> "DecompressHuffmanSymbol", before |-> callerState,
                      value |-> r.value]
           /\ out' = IF r.value = CL_COMPRESSOR_END_TOKEN THEN out
                     ELSE Append(out, U8(r.value))
           /\ pc' = IF pc # "started" THEN "over"
                    ELSE IF r.value = CL_COMPRESSOR_END_TOKEN THEN "ended" ELSE "started"
    /\ calls' = calls + 1
    /\ UNCHANGED <<input, callerSource, callerDestLength, size, oneshot>>

DecompressArithmeticSymbolCall ==
    /\ pc \in {"started", "ended", "over"}
    /\ input.codec = "arithmetic"
    /\ pc = "started" \/ (0 < callerState.total /\ calls < callerState.total + MaxExtraCalls)
    /\ \E r \in {DecompressArithmeticSymbol(callerState)} :
           /\ callerState' = r.state
           /\ ret' = [op |-> "DecompressArithmeticSymbol", before |-> callerState,
                      value |-> r.value]
           /\ out' = Append(out, U8(r.value))
    /\ calls' = calls + 1
    /\ pc' = IF pc # "started" THEN "over"
             ELSE IF calls' = callerState.total THEN "ended" ELSE "started"
    /\ UNCHANGED <<input, callerSource, callerDestLength, size, oneshot>>

DecompressLZ77BlockCall ==
    /\ pc \in {"started", "ended"}
    /\ input.codec = "lz77"
    /\ \E r \in {DecompressLZ77Block(callerState)} :
           /\ callerState' = r.state
           /\ ret' = [op |-> "DecompressLZ77Block", before |-> callerState,
                      value |-> r.value, written |-> r.written]
           /\ out' = out \o r.written
           /\ pc' = IF pc # "started" THEN "over"
                    ELSE IF r.value = CL_COMPRESSOR_END_TOKEN THEN "ended" ELSE "started"
    /\ calls' = calls + 1
    /\ UNCHANGED <<input, callerSource, callerDestLength, size, oneshot>>

DecompressLZCLBlockCall ==
    /\ pc \in {"started", "ended"}
    /\ input.codec = "lzcl"
    /\ \E r \in {DecompressLZCLBlock(callerState)} :
           /\ callerState' = r.state
           /\ ret' = [op |-> "DecompressLZCLBlock", before |-> callerState,
                      value |-> r.value, written |-> r.written]
           /\ out' = out \o r.written
           /\ pc' = IF pc # "started" THEN "over"
                    ELSE IF r.value = CL_COMPRESSOR_END_TOKEN THEN "ended" ELSE "started"
    /\ calls' = calls + 1
    /\ UNCHANGED <<input, callerSource, callerDestLength, size, oneshot>>

Next ==
    \/ GetDecompressedSizeCall
    \/ DecompressHuffmanCall
    \/ DecompressArithmeticCall
    \/ DecompressLZ77Call
    \/ DecompressLZCLCall
    \/ DecompressHuffmanStartCall
    \/ DecompressArithmeticStartCall
    \/ DecompressLZ77StartCall
    \/ DecompressLZCLStartCall
    \/ DecompressHuffmanSymbolCall
    \/ DecompressArithmeticSymbolCall
    \/ DecompressLZ77BlockCall
    \/ DecompressLZCLBlockCall

Spec == Init /\ [][Next]_vars

\* the calls on a bare bitstream, and the arithmetic decoder with its lookup
NextBits ==
    \/ ReadBitstreamCall
    \/ ReadFromBitstreamPositionCall
    \/ DecodeUniversalLomont1Call
    \/ DecompressArithmeticStartCall
    \/ DecompressArithmeticSymbolCall
    \/ LookupArithmeticLowMemoryCountCall

SpecBits == InitBits /\ [][NextBits]_vars

(***************************************************************************)
(* Properties of the four decompressors.                                   *)
(***************************************************************************)
RECURSIVE BitsValue(_, _, _)
\* the unsigned value of the n stream bits from p, the first the most significant
BitsValue(data, p, n) ==
    IF n = 0 THEN 0 ELSE 2 * BitsValue(data, p, n - 1) + StreamBit(data, p + n - 1)

\* the position after the Lomont1(6,0) field at the start of the stream
FirstFieldEnd == GroupStart(0, 6, 0, LastGroup(callerSource, 0, 6, 0) + 1)

StartCalls ==
    {"DecompressHuffmanStart", "DecompressArithmeticStart", "DecompressLZ77Start",
     "DecompressLZCLStart"}

\* the value is the one the start call of the stream's codec returned, and
\* the function read the first field and no more
SizeIsStartValue ==
    size.op = "GetDecompressedSize" =>
        /\ size.position = FirstFieldEnd
        /\ ret.op \in StartCalls => size.value = ret.value

\* a call of GetDecompressedSize changes nothing the caller holds
SizeCallFrame ==
    size' # size =>
        UNCHANGED <<input, callerSource, callerDestLength, callerState, out, calls, ret,
                    oneshot, pc>>

\* C4: GetDecompressedSize reads the leading Lomont1(6,0) field and nothing
\* after it, changes no state of the caller (source, decoder state,
\* destination), and returns the value the start call of the stream's codec
\* obtains: byteLength for Huffman, LZ77 and LZCL, the symbol count for
\* arithmetic.
C4_GetDecompressedSize == [] SizeIsStartValue /\ [][SizeCallFrame]_vars

\* the size of a started arithmetic stream of 4 symbols
C4_Witness ==
    /\ size.op = "GetDecompressedSize"
    /\ ret.op = "DecompressArithmeticStart"
    /\ pc = "started"
    /\ size.value = 4
    /\ ret.value = 4
    /\ size.position = 7
    /\ callerState.total = 4

\* the bits at the cursor of the last symbol call start with a codeword of
\* row k of the book: first_k <= v < first_k + c_k for the value v of the
\* first L = minCodewordLength + k - 1 bits
RowHit(k) ==
    LET L == input.book.minCodewordLength + k - 1
        p == ret.before.bitstream.position
    IN  /\ p + L <= 8 * Len(callerSource)
        /\ FirstCode(input.book.rows, k) <= BitsValue(callerSource, p, L)
        /\ BitsValue(callerSource, p, L) < FirstCode(input.book.rows, k) + Len(input.book.rows[k])

\* the symbol of that codeword, the (v - first_k)-th of row k
RowSymbol(k) ==
    input.book.rows[k][BitsValue(callerSource, ret.before.bitstream.position,
                                 input.book.minCodewordLength + k - 1)
                       - FirstCode(input.book.rows, k) + 1]

\* C10: with first_min = 0 and first_(L+1) = 2 * (first_L + c_L), a codeword of
\* length L whose value v has first_L <= v < first_L + c_L decodes to the
\* (v - first_L)-th symbol of length L and advances the cursor by L bits; for
\* the codebook of minimum length 2 with counts 0, 2, 4 and symbols 0..5, 000
\* and 001 decode to 0 and 1 (3 bits) and 0100..0111 to 2..5 (4 bits).
C10_CanonicalWalk ==
    (ret.op = "DecompressHuffmanSymbol" /\ ret.value # CL_COMPRESSOR_END_TOKEN) =>
        /\ \A k \in 1..Len(input.book.rows) :
              RowHit(k) =>
                 /\ ret.value = RowSymbol(k)
                 /\ callerState.bitstream.position =
                       ret.before.bitstream.position + input.book.minCodewordLength + k - 1
        /\ \E k \in 1..Len(input.book.rows) : RowHit(k)
        /\ input.book = CanonicalWalkBook =>
              LET p == ret.before.bitstream.position
                  v3 == BitsValue(callerSource, p, 3)
                  v4 == BitsValue(callerSource, p, 4)
              IN  /\ v3 \in {0, 1} =>
                        (ret.value = v3 /\ callerState.bitstream.position = p + 3)
                  /\ v4 \in 4..7 =>
                        (ret.value = v4 - 2 /\ callerState.bitstream.position = p + 4)

\* the second codeword of a message is 0111, symbol 5
C10_Witness ==
    /\ ret.op = "DecompressHuffmanSymbol"
    /\ input.book = CanonicalWalkBook
    /\ calls = 2
    /\ ret.value = 5
    /\ BitsValue(callerSource, ret.before.bitstream.position, 4) = 7
    /\ callerState.bitstream.position = ret.before.bitstream.position + 4

\* the largest distance field of the copies of a list of items, 0 without a copy
LargestDistance(items) ==
    LET fields == {items[i].distance : i \in {j \in 1..Len(items) : ~ IsLiteral(items[j])}}
    IN  IF fields = {} THEN 0 ELSE CHOOSE d \in fields : \A e \in fields : e <= d

\* the last call was a block call that decoded a copy
LZ77CopyCall ==
    /\ ret.op = "DecompressLZ77Block"
    /\ ret.value # CL_COMPRESSOR_END_TOKEN
    /\ StreamBit(callerSource, ret.before.bitstream.position) = 1

\* the distance of that copy: token mod (max_distance + 1)
LZ77CopyDistance ==
    BitsValue(callerSource, ret.before.bitstream.position + 1, ret.before.actualBitsPerToken)
        % (ret.before.actualMaxDistance + 1)

\* every byte of the copy for an output position i that has a position
\* i - distance - 1 is the byte produced for that position
LZ77CopyLooksBack ==
    \A i \in (Len(out) - Len(ret.written))..(Len(out) - 1) :
        i - LZ77CopyDistance - 1 >= 0 => out[i + 1] = out[i - LZ77CopyDistance]

\* C5 as stated: whenever dest_length equals or exceeds the largest
\* back-reference distance of the stream, every byte a copy writes for output
\* position i is the byte produced for position i - distance - 1.
C5_AsStated ==
    (LZ77CopyCall /\ callerDestLength >= LargestDistance(input.items)) => LZ77CopyLooksBack

\* C5, amended: whenever dest_length exceeds the largest back-reference
\* distance of the stream (dest_length >= distance + 1, the look-back), every
\* byte a copy writes for output position i is the byte produced for position
\* i - distance - 1.
C5_CircularIsLinear ==
    (LZ77CopyCall /\ callerDestLength > LargestDistance(input.items)) => LZ77CopyLooksBack

\* a copy of 4 bytes at distance 2 into a buffer of 3 bytes, after a, b, c
C5_Witness ==
    /\ LZ77CopyCall
    /\ callerDestLength = 3
    /\ LZ77CopyDistance = 2
    /\ LargestDistance(input.items) = 2
    /\ ret.value = 4
    /\ out = <<97, 98, 99, 97, 98, 99, 97>>

\* the stream of the literals a, b and one copy of length 3 that looks back
\* distance bytes, decoded to its end
ABCopyDecoded(distance) ==
    /\ input.codec = "lz77"
    /\ input.items = <<[lit |-> 97], [lit |-> 98], [length |-> 3, distance |-> distance - 1]>>
    /\ pc = "ended"

\* C6 as stated: the literals a, b and one copy of length 3 at distance 2
\* yield the 6 bytes "ababab" with dest_length 16, and with dest_length 4.
C6_AsStated ==
    (ABCopyDecoded(2) /\ callerDestLength \in {16, 4}) => out = <<97, 98, 97, 98, 97, 98>>

\* C6, amended: a copy is made one byte at a time, so that a copy longer than
\* its look-back reads bytes the same copy wrote; the output is that of an
\* unbounded linear buffer, whatever dest_length is, when dest_length exceeds
\* every distance field of the stream and every look-back stays within the
\* output; the literals a, b and one copy of length 3 that looks back 2 bytes
\* yield the 5 bytes "ababa" with dest_length 16, and with dest_length 4.
C6_ByteAtATime ==
    /\ (/\ input.codec = "lz77"
        /\ pc = "ended"
        /\ callerDestLength > LargestDistance(input.items)
        /\ \A i \in 1..Len(LinearOutput(input.items, Len(input.items))) :
              LinearOutput(input.items, Len(input.items))[i] # -1)
       => out = LinearOutput(input.items, Len(input.items))
    /\ (ABCopyDecoded(2) /\ callerDestLength \in {16, 4}) => out = <<97, 98, 97, 98, 97>>

\* the copy of the example read the byte it had just written, in 4 bytes
C6_Witness ==
    /\ ABCopyDecoded(2)
    /\ callerDestLength = 4
    /\ calls = 4
    /\ out = <<97, 98, 97, 98, 97>>
    /\ callerState.dest = <<97, 98, 97, 98>>

\* the last call was an LZCL block call for an item of the stream that is a copy
LZCLCopyCall ==
    /\ ret.op = "DecompressLZCLBlock"
    /\ ret.value # CL_COMPRESSOR_END_TOKEN
    /\ calls <= Len(input.items)
    /\ IsCopy(input.items[calls])

\* the call copied the length and looked back the distance the stream holds
\* for the item, token / (max_distance + 1) + min_length and
\* token mod (max_distance + 1) of its token
LZCLCopyAsCoded ==
    /\ ret.value = input.items[calls].length
    /\ Len(ret.written) = input.items[calls].length
    /\ callerDestLength > input.form.maxDistance =>
          \A i \in (Len(out) - Len(ret.written))..(Len(out) - 1) :
              i - input.items[calls].distance - 1 >= 0
                  => out[i + 1] = out[i - input.items[calls].distance]

\* C7: every copy of an LZCL stream is decoded with the layout the header
\* declared: one symbol of token_codec, split into length = token /
\* (max_distance + 1) + min_length and distance = token mod (max_distance + 1),
\* when the header selected a token codec, and one symbol of distance_codec
\* and one of length_codec, length = symbol + min_length, when it selected
\* the pair.
C7_AsStated == LZCLCopyCall => LZCLCopyAsCoded

(***************************************************************************)
(* The copy loops of DecompressLZ77Block and DecompressLZCLBlock, each on  *)
(* the fields of its state that the loop reads and writes: dest,           *)
(* destLength and byteIndex.  Both start from the same buffer and position *)
(* and copy the same decoded distance and length.                          *)
(***************************************************************************)
MaxCopyDest == 3       \* the buffers have 1..MaxCopyDest bytes
MaxCopyLength == 4     \* the lengths are 0..MaxCopyLength

\* positions at the start of the buffer, past its end, and before 2^32
CopyByteIndexes == {0, 1, 2, 5, -2, -1}
\* distances within the buffer, beyond it, and 0xFFFFFFFF
CopyDistances == {0, 1, 2, 4, -1}

CopyInputs ==
    UNION {{[codec |-> "copy", dest |-> dest, byteIndex |-> byteIndex,
             distance |-> distance, length |-> length] :
               dest \in [1..n -> {7, 9}], byteIndex \in CopyByteIndexes,
               distance \in CopyDistances, length \in 0..MaxCopyLength} :
                  n \in 1..MaxCopyDest}

InitCopy ==
    /\ input \in CopyInputs
    /\ callerSource = <<>>
    /\ callerDestLength = Len(input.dest)
    /\ callerState =
          [lz77 |-> [dest |-> input.dest, destLength |-> Len(input.dest),
                     byteIndex |-> input.byteIndex],
           lzcl |-> [dest |-> input.dest, destLength |-> Len(input.dest),
                     byteIndex |-> input.byteIndex]]
    /\ out = <<>>
    /\ calls = 0
    /\ ret = [lz77 |-> NoCall, lzcl |-> NoCall]
    /\ size = NoCall
    /\ oneshot = NoOneShot
    /\ pc = "started"

LZ77CopyRunCall ==
    /\ input.codec = "copy"
    /\ ret.lz77.op = "none"
    /\ \E r \in {LZ77CopyRun(callerState.lz77, input.distance, input.length)} :
           /\ callerState' = [callerState EXCEPT !.lz77 = r.state]
           /\ ret' = [ret EXCEPT !.lz77 = [op |-> "LZ77CopyRun", value |-> r.value,
                                           written |-> r.written]]
    /\ calls' = calls + 1
    /\ UNCHANGED <<input, callerSource, callerDestLength, out, size, oneshot, pc>>

LZCLCopyRunCall ==
    /\ input.codec = "copy"
    /\ ret.lzcl.op = "none"
    /\ \E r \in {LZCLCopyRun(callerState.lzcl, input.distance, input.length)} :
           /\ callerState' = [callerState EXCEPT !.lzcl = r.state]
           /\ ret' = [ret EXCEPT !.lzcl = [op |-> "LZCLCopyRun", value |-> r.value,
                                           written |-> r.written]]
    /\ calls' = calls + 1
    /\ UNCHANGED <<input, callerSource, callerDestLength, out, size, oneshot, pc>>

NextCopy == LZ77CopyRunCall \/ LZCLCopyRunCall

SpecCopy == InitCopy /\ [][NextCopy]_vars

\* C8: from the same byte_index, dest contents, dest_length (1 or more),
\* distance and length, the copy of an LZCL block call and the copy of an
\* LZ77 block call store the same bytes in the same order, leave the same
\* buffer and the same byte_index, and return the same count, the length.
C8_SameCopy ==
    (ret.lz77.op = "LZ77CopyRun" /\ ret.lzcl.op = "LZCLCopyRun") =>
        /\ callerState.lzcl = callerState.lz77
        /\ ret.lzcl.written = ret.lz77.written
        /\ ret.lzcl.value = ret.lz77.value
        /\ ret.lzcl.value = input.length

\* a run of 4 bytes that looks back 2, longer than its look-back, across 2^32
C8_Witness ==
    /\ ret.lz77.op = "LZ77CopyRun"
    /\ ret.lzcl.op = "LZCLCopyRun"
    /\ input.dest = <<7, 9, 9>>
    /\ input.byteIndex = -2
    /\ input.distance = 1
    /\ input.length = 4
    /\ callerState.lzcl.byteIndex = 2
    /\ callerState.lzcl.dest # input.dest
    /\ callerState.lzcl = callerState.lz77

Min(a, b) == IF a <= b THEN a ELSE b

\* a one-shot call was made, and the incremental calls have ended
BothEnded == oneshot.op # "none" /\ pc = "ended"

\* the bytes the one-shot call left in the caller's buffer: the first value
\* bytes of dest for a symbol codec, the circular buffer for a block codec
OneShotOutput ==
    IF input.codec \in {"huffman", "arithmetic"}
    THEN SubSeq(oneshot.dest, 1, Min(oneshot.value, Len(oneshot.dest)))
    ELSE oneshot.dest

\* the bytes of the incremental calls: the symbols delivered, or the buffer
IncrementalOutput ==
    IF input.codec \in {"huffman", "arithmetic"} THEN out ELSE callerState.dest

\* C9 as stated: for each codec, every source and every dest_len, the one-shot
\* call and the incremental sequence produce identical output bytes and end
\* with the cursor at the same bit position.
C9_AsStated ==
    BothEnded =>
        /\ ~ oneshot.trapped
        /\ OneShotOutput = IncrementalOutput
        /\ oneshot.state.bitstream.position = callerState.bitstream.position

\* LZ77 and LZCL: the same buffer, byte count and state, cursor included
BlockCodecsAgree ==
    (BothEnded /\ input.codec \in {"lz77", "lzcl"}) =>
        /\ oneshot.dest = callerState.dest
        /\ oneshot.value = callerState.byteIndex
        /\ oneshot.value = Len(out)
        /\ oneshot.state = callerState

\* Huffman: the one-shot call delivers min(n, dest_len) symbols, and is where
\* the incremental sequence is after that many symbols
HuffmanAgrees ==
    /\ oneshot.op = "DecompressHuffman" => oneshot.value <= callerDestLength
    /\ (BothEnded /\ input.codec = "huffman") =>
           oneshot.value = Min(Len(out), callerDestLength)
    /\ (/\ oneshot.op = "DecompressHuffman"
        /\ pc \in {"started", "ended"}
        /\ Len(out) = oneshot.value) =>
           /\ SubSeq(oneshot.dest, 1, oneshot.value) = out
           /\ oneshot.state.bitstream.position = callerState.bitstream.position

\* Arithmetic: a one-shot call that returns has decoded all total symbols,
\* those from index dest_len on stored beyond the buffer
ArithmeticAgrees ==
    (BothEnded /\ input.codec = "arithmetic") =>
        /\ callerDestLength >= Len(out) => (~ oneshot.trapped /\ oneshot.beyond = <<>>)
        /\ ~ oneshot.trapped =>
              /\ oneshot.value = Len(out)
              /\ OneShotOutput \o oneshot.beyond = out
              /\ oneshot.state = callerState

\* C9, amended: for LZ77 and LZCL and every dest_len >= 1 the one-shot call
\* and the incremental sequence leave the same buffer and byte count and the
\* cursor at the same bit position; DecompressHuffman stops after dest_len
\* symbols, delivers the first min(n, dest_len) bytes of the incremental
\* sequence and leaves the cursor where that sequence is after as many
\* symbols, the same bytes and cursor when dest_len >= n; DecompressArithmetic
\* decodes all total symbols whatever dest_len is, the same symbols and cursor
\* as the incremental sequence when it returns, and stores those from index
\* dest_len on beyond the buffer.
C9_OneShotIncremental == BlockCodecsAgree /\ HuffmanAgrees /\ ArithmeticAgrees

\* a Huffman message of 2 symbols decoded both ways into 2 bytes
C9_Witness ==
    /\ BothEnded
    /\ input.codec = "huffman"
    /\ callerDestLength = 2
    /\ out = <<98, 99>>
    /\ oneshot.value = 2
    /\ oneshot.dest = <<98, 99>>
    /\ oneshot.state.bitstream.position = callerState.bitstream.position

\* the byte length the header of the stream holds
HeaderByteLength == GetDecompressedSize(callerSource).value

\* byteLength is the count of the symbols still to deliver, and the calls
\* after the last symbol, and no other, return the end token; the Huffman
\* sub-codec of an LZCL stream keeps the mark 0xFFFFFFFF and delivers the
\* literals
HuffmanCountsDown ==
    /\ (input.codec = "huffman" /\ pc # "idle") =>
          /\ callerState.byteLength =
                IF calls < HeaderByteLength THEN HeaderByteLength - calls ELSE 0
          /\ ret.op = "DecompressHuffmanSymbol" =>
                ((ret.value = CL_COMPRESSOR_END_TOKEN) <=> (calls > HeaderByteLength))
    /\ (input.codec = "lzcl" /\ pc # "idle" /\ callerState.literalCodec.codecType = 2) =>
          /\ callerState.literalCodec.huffmanState.byteLength = -1
          /\ (/\ ret.op = "DecompressLZCLBlock"
              /\ calls <= Len(input.items)
              /\ IsLiteral(input.items[calls])) =>
                 (ret.value = 1 /\ ret.written = <<input.items[calls].lit>>)

\* a call with byteLength 0 returns the end token and reads no bit; any other
\* call returns a symbol and takes 1 from byteLength
HuffmanCountStep ==
    (input.codec = "huffman" /\ calls' = calls + 1) =>
        IF callerState.byteLength = 0
        THEN ret'.value = CL_COMPRESSOR_END_TOKEN /\ callerState' = callerState
        ELSE /\ ret'.value # CL_COMPRESSOR_END_TOKEN
             /\ callerState'.byteLength = callerState.byteLength - 1
             /\ callerState'.bitstream.position > callerState.bitstream.position

\* C11: after DecompressHuffmanStart on a stream of byte length n, exactly the
\* first n calls of DecompressHuffmanSymbol return a symbol, each takes 1 from
\* byteLength, and every later call returns the end token and reads no bit;
\* a byteLength of 0xFFFFFFFF, which ReadLZCLItem sets for a Huffman sub-codec,
\* is never counted down, and no call on it returns the end token.
C11_ByteLengthCounts == [] HuffmanCountsDown /\ [][HuffmanCountStep]_vars

\* the second call after the 2 symbols of a stream
C11_Witness ==
    /\ input.codec = "huffman"
    /\ pc = "over"
    /\ HeaderByteLength = 2
    /\ calls = 4
    /\ ret.op = "DecompressHuffmanSymbol"
    /\ ret.value = CL_COMPRESSOR_END_TOKEN
    /\ ret.before = callerState
    /\ Len(out) = 2

\* C12: after DecompressArithmeticStart returned total = n and n symbols were
\* delivered, every further call of DecompressArithmeticSymbol returns
\* CL_COMPRESSOR_END_TOKEN.
C12_AsStated ==
    (/\ input.codec = "arithmetic"
     /\ ret.op = "DecompressArithmeticSymbol"
     /\ calls > callerState.total) => ret.value = CL_COMPRESSOR_END_TOKEN

\* C13: for every source stream and every dest_len > 0, every write of the
\* four one-shot decompressors targets a dest index in [0, dest_len): no byte
\* is stored beyond dest, and no store faults there.
C13_AsStated ==
    oneshot.op # "none" => (oneshot.beyond = <<>> /\ ~ oneshot.trapped)

\* the last call was a block call on a copy that looks back further than the
\* buffer holds (distance + 1 > dest_length)
LZ77InsufficientDestination ==
    /\ ret.op = "DecompressLZ77Block"
    /\ Less32(ret.before.byteIndex, ret.before.byteLength)
    /\ StreamBit(callerSource, ret.before.bitstream.position) = 1
    /\ LZ77CopyDistance + 1 > callerDestLength

\* C14: when a copy needs more history than dest_length provides, the block
\* call returns the end token early, with byte_index < byte_length, and the
\* one-shot call returns a zero or negative value.
C14_AsStated ==
    /\ LZ77InsufficientDestination =>
          (ret.value = CL_COMPRESSOR_END_TOKEN /\ callerState = ret.before)
    /\ (/\ oneshot.op = "DecompressLZ77"
        /\ LargestDistance(input.items) + 1 > callerDestLength) => oneshot.value <= 0

(***************************************************************************)
(* Huffman streams whose body holds bits that are no codeword: the walk of *)
(* DecompressHuffmanSymbol on them.                                        *)
(***************************************************************************)
WalkTail == 4        \* bits of the body after the first non-codeword

\* a: 0, b: 10, and no codeword 11
SparseBook ==
    [bitsPerSymbol |-> 8, bitsPerCodelengthCount |-> 2, minCodewordLength |-> 1,
     rows |-> << <<97>>, <<98>> >>]

\* the streams: a byte length, the header of the book, and a body that
\* starts with the bits 1 1
WalkInputs ==
    {[codec |-> "huffman", book |-> SparseBook, symbols |-> n,
      body |-> <<1, 1>> \o tail,
      data |-> Pack(EncodeLomont1(n, 6, 0) \o EncodeHuffmanHeader(SparseBook)
                    \o <<1, 1>> \o tail) \o <<0, 0>>] :
         n \in 1..MaxMessage, tail \in [1..WalkTail -> {0, 1}]}

InitWalk ==
    /\ input \in WalkInputs
    /\ callerSource = input.data
    /\ callerDestLength \in DestLengths
    /\ callerState = HuffmanStateUnset
    /\ out = <<>>
    /\ calls = 0
    /\ ret = NoCall
    /\ size = NoCall
    /\ oneshot = NoOneShot
    /\ pc = "idle"

NextWalk ==
    \/ DecompressHuffmanStartCall
    \/ DecompressHuffmanSymbolCall
    \/ DecompressHuffmanCall

SpecWalk == InitWalk /\ [][NextWalk]_vars

\* the bits the last symbol call read from the body: one for every row of
\* the table it examined, from the row of min_len on
WalkBits == callerState.bitstream.position - ret.before.bitstream.position

\* C15: the walk of DecompressHuffmanSymbol examines only the rows of the
\* lengths min_len..max_len: a call that found no codeword by max_len fails
\* and returns instead of reading further rows, so no call returns a symbol
\* after reading more than max_len bits.
C15_AsStated ==
    (ret.op = "DecompressHuffmanSymbol" /\ ret.value # CL_COMPRESSOR_END_TOKEN)
        => WalkBits <= ret.before.maxCodewordLength

\* the bounds of a decoder state: low < high, low <= buffer <= high,
\* high < 2^31, and high - low + 1 > 2^29 (a quarter of the range)
ArithmeticBounds(state) ==
    /\ 0 <= state.lowValue
    /\ state.lowValue < state.highValue
    /\ state.lowValue <= state.buffer
    /\ state.buffer <= state.highValue
    /\ state.highValue <= MaxInt
    /\ state.highValue - state.lowValue >= range25Percent

\* C16: for a well-formed arithmetic stream (0 < total < 2^29, counts that
\* sum to total), after DecompressArithmeticStart and after every
\* DecompressArithmeticSymbol call: low < high, low <= buffer <= high,
\* high < 2^31 and high - low + 1 > 2^29.
C16_RenormalizationBounds ==
    /\ (input.codec = "arithmetic" /\ pc # "idle") =>
          (/\ 0 < callerState.total
           /\ callerState.total < range25Percent
           /\ ArithmeticBounds(callerState))
    /\ (oneshot.op = "DecompressArithmetic" /\ ~ oneshot.trapped) =>
          ArithmeticBounds(oneshot.state)

\* a symbol call whose interval lay inside the middle half (e3 scaling): the
\* symbols b, b, a of the table 1, 3
C16_Witness ==
    /\ input.codec = "arithmetic"
    /\ input.counts = <<1, 3>>
    /\ ret.op = "DecompressArithmeticSymbol"
    /\ out = <<98, 98, 97>>
    /\ ArithmeticBounds(callerState)
    /\ callerState.highValue - callerState.lowValue < MaxInt

\* the position after the bit_length field of an arithmetic stream, where
\* the count of bitsRead starts
RegionStart ==
    DecodeUniversalLomont1(
        DecodeUniversalLomont1(InitializeBitstream(callerSource), 6, 0).bitstream,
        8, -1).bitstream.position

RECURSIVE PaddedBits(_, _, _, _, _)
\* the value of the first n bits the reader returns from position p on, with
\* bitsRead = t before the first: the bit of the stream when bitsRead, plus
\* slack, is below bitLength, and 0 when it is not
PaddedBits(p, t, bitLength, slack, n) ==
    IF n = 0 THEN 0
    ELSE 2 * PaddedBits(p, t, bitLength, slack, n - 1)
         + (IF t + n - 1 + slack < bitLength THEN StreamBit(callerSource, p + n - 1) ELSE 0)

\* how many of the 31 bits of the buffer are bits of the stream
StreamBitsOf31(t, bitLength, slack) ==
    Min(31, IF bitLength - slack - t < 0 THEN 0 ELSE bitLength - slack - t)

\* the state after DecompressArithmeticStart: 31 calls of the reader, from
\* the end of the table on, each adding 1 to bitsRead
BufferFilled(slack) ==
    (input.codec = "arithmetic" /\ ret.op = "DecompressArithmeticStart") =>
        /\ callerState.buffer =
              PaddedBits(callerState.bitstream.position
                             - StreamBitsOf31(callerState.bitsRead - 31,
                                              callerState.bitLength, slack),
                         callerState.bitsRead - 31, callerState.bitLength, slack, 31)
        /\ callerState.bitstream.position =
              RegionStart + (callerState.bitsRead - 31)
                  + StreamBitsOf31(callerState.bitsRead - 31, callerState.bitLength, slack)

\* a symbol call adds 1 to bitsRead for every bit it takes, and takes no bit
\* of the stream once bitsRead + 1 has reached bitLength
SymbolBitsPadded ==
    (input.codec = "arithmetic" /\ calls' = calls + 1) =>
        /\ callerState'.bitsRead >= callerState.bitsRead
        /\ callerState.bitsRead + 1 >= callerState.bitLength =>
               callerState'.bitstream.position = callerState.bitstream.position

\* a one-shot call delivers exactly total symbols
DeliversTotal ==
    (oneshot.op = "DecompressArithmetic" /\ ~ oneshot.trapped) =>
        /\ oneshot.value = input.total
        /\ oneshot.value = oneshot.state.total
        /\ Min(oneshot.value, callerDestLength) + Len(oneshot.beyond) = input.total

PaddedReaderHolds == BufferFilled(1) /\ DeliversTotal

\* C17 as stated: the arithmetic bit reader returns the next stream bit
\* exactly when bits_read, as it was before the call, is < bit_length, and 0
\* without advancing the cursor otherwise.
C17_AsStated == BufferFilled(0)

\* C17, amended: the arithmetic bit reader adds 1 to bits_read and returns
\* the next stream bit exactly when the new bits_read is < bit_length (the
\* old one + 1 < bit_length), and 0 without advancing the cursor otherwise;
\* a region shorter than 31 bits is padded with zeros and decoding still
\* delivers exactly total symbols.
C17_PaddedReader == [] PaddedReaderHolds /\ [][SymbolBitsPadded]_vars

\* a started decoder whose region ends with a 1 bit, which the buffer lacks
C17_Witness ==
    /\ input.codec = "arithmetic"
    /\ ret.op = "DecompressArithmeticStart"
    /\ input.body = <<0, 0, 0, 1>>
    /\ callerState.buffer = 0
    /\ callerState.bitsRead > callerState.bitLength
    /\ StreamBit(callerSource, callerState.bitstream.position) = 1

\* the sum of the counts before entry j of the table of the stream
CountsBefore(j) == SumOf(SubSeq(input.counts, 1, j))

\* C18: for a non-empty table of counts x_0, x_1, ... that sum to total and
\* every cum_count in [0, total), LookupArithmeticLowMemoryCount returns
\* low_count <= cum_count < high_count, with low_count the sum of the counts
\* before an entry j and high_count = low_count + x_j, and the symbol
\* symbol_min + j of that entry, also when zero counts precede it.
C18_LookupEntry ==
    ret.op = "LookupArithmeticLowMemoryCount" =>
        \E j \in 0..(Len(input.counts) - 1) :
            /\ ret.lowCount = CountsBefore(j)
            /\ ret.highCount = ret.lowCount + input.counts[j + 1]
            /\ ret.lowCount <= ret.cumCount
            /\ ret.cumCount < ret.highCount
            /\ ret.value = input.symbolMin + j

\* the lookup of cum_count 1 in the table 1, 0, 1, 2: entry 2, after a zero
C18_Witness ==
    /\ ret.op = "LookupArithmeticLowMemoryCount"
    /\ input.counts = <<1, 0, 1, 2>>
    /\ ret.cumCount = 1
    /\ ret.value = input.symbolMin + 2
    /\ ret.lowCount = 1
    /\ ret.highCount = 2

(***************************************************************************)
(* LZCL streams whose decisions are coded as runs, the runs of length 0    *)
(* included: the decisions DecompressLZCLBlock takes.                      *)
(***************************************************************************)
MaxRun == 2          \* largest length of a run
RunBytes == 4        \* byte length of the streams
RunCount == 3        \* runs of a stream

\* three run lengths that cover the bytes of the stream
RunLists == {r \in [1..RunCount -> 0..MaxRun] : SumOf(r) >= RunBytes}

\* the streams: decisions in runs (Golomb, parameter 2), RunBytes literals
\* (of 8 bits, or Huffman coded), and RunBytes copies of min_length bytes at
\* distance 0, coded as pairs
RunInputs ==
    {[codec |-> "lzcl", runs |-> runs, initialValue |-> initial,
      form |-> [literals |-> literals, book |-> LetterBook],
      data |-> Pack(EncodeLomont1(RunBytes, 6, 0) \o EncodeLomont1(3, 10, 0)
                    \o EncodeLomont1(2, 2, 0)
                    \o <<1, initial>> \o GolombItem(2, runs)
                    \o (IF literals = "fixed"
                        THEN FixedItem(8, [i \in 1..RunBytes |-> 96 + i])
                        ELSE HuffmanItem(LetterBook, [i \in 1..RunBytes |-> <<2, 1>>]))
                    \o <<1>> \o FixedItem(2, [i \in 1..RunBytes |-> 0])
                    \o GolombItem(3, [i \in 1..RunBytes |-> 0]))
               \o <<0, 0>>] :
         runs \in RunLists, initial \in {0, 1}, literals \in {"fixed", "huffman"}}

InitRuns ==
    /\ input \in RunInputs
    /\ callerSource = input.data
    /\ callerDestLength \in DestLengths
    /\ callerState = LZCLStateUnset
    /\ out = <<>>
    /\ calls = 0
    /\ ret = NoCall
    /\ size = NoCall
    /\ oneshot = NoOneShot
    /\ pc = "idle"

NextRuns ==
    \/ DecompressLZCLStartCall
    \/ DecompressLZCLBlockCall

SpecRuns == InitRuns /\ [][NextRuns]_vars

\* the run the k-th decision of the run-length expansion belongs to
RunIndex(k) ==
    CHOOSE m \in 1..Len(input.runs) :
        /\ SumOf(SubSeq(input.runs, 1, m)) >= k
        /\ \A n \in 1..(m - 1) : SumOf(SubSeq(input.runs, 1, n)) < k

RECURSIVE DecodeRuns(_, _)
\* the run codec after m symbols
DecodeRuns(codec, m) ==
    IF m = 0 THEN codec ELSE DecodeRuns(DecodeLZCLSymbol(codec).codec, m - 1)

\* the run codec as DecompressLZCLStart leaves it
StartRunCodec ==
    DecompressLZCLStart(LZCLStateUnset, callerSource, InitialDest(callerDestLength),
                        callerDestLength).state.decisionCodec

\* the decision of the last block call is that of the run-length expansion:
\* the initial value in the runs r_0, r_2, ..., its complement in the others;
\* runsLeft is what is left of the run, and one symbol per run was decoded
RunsExpanded ==
    (ret.op = "DecompressLZCLBlock" /\ ret.value # CL_COMPRESSOR_END_TOKEN) =>
        /\ callerState.curRun = IF RunIndex(calls) % 2 = 1 THEN input.initialValue
                                ELSE 1 - input.initialValue
        /\ callerState.runsLeft = SumOf(SubSeq(input.runs, 1, RunIndex(calls))) - calls
        /\ callerState.decisionCodec = DecodeRuns(StartRunCodec, RunIndex(calls))

\* C19 as stated: in decision-run mode the decisions are the run-length
\* expansion of the decoded runs for every sequence of run lengths, runs of
\* length 0 included; one symbol is decoded per run and runs_left never
\* wraps below 0.
C19_AsStated == RunsExpanded

\* C19, amended: in decision-run mode the decisions are the run-length
\* expansion of the decoded runs (initial_value r_0 times, its complement
\* r_1 times, and so on) for every sequence of run lengths in which no run
\* after the first has length 0; one symbol is decoded per run and runs_left
\* stays at or above 0.
C19_RunsExpanded ==
    (\A i \in 2..Len(input.runs) : input.runs[i] > 0) => RunsExpanded

\* the third decision of the runs 0, 2, 2: an empty first run, and the
\* second symbol of the third run still to come
C19_Witness ==
    /\ input.codec = "lzcl"
    /\ input.runs = <<0, 2, 2>>
    /\ ret.op = "DecompressLZCLBlock"
    /\ calls = 3
    /\ callerState.curRun = input.initialValue
    /\ callerState.runsLeft = 1

\* the bit_length field of the item that starts at position s: its value,
\* and the position after it
ItemLength(s) == DecodeUniversalLomont1([data |-> callerSource, position |-> s + 2], 6, 0)

\* the position bit_length bits after the bit_length field of that item
ItemSkip(s) == ItemLength(s).bitstream.position + ItemLength(s).value

\* the position after the header of a sub-codec of the item at s: one
\* Lomont1 field for Fixed (3, 0) and Golomb (6, 0), the table for Huffman
ItemHeaderEnd(s) ==
    IF BitsValue(callerSource, s, 2) = 0
    THEN DecodeUniversalLomont1(ItemLength(s).bitstream, 3, 0).bitstream.position
    ELSE IF BitsValue(callerSource, s, 2) = 3
    THEN DecodeUniversalLomont1(ItemLength(s).bitstream, 6, 0).bitstream.position
    ELSE ItemLength(s).bitstream.position + Len(EncodeHuffmanHeader(input.form.book))

\* where the items of an LZCL stream start: after max_distance, min_length
\* and the 1 or 2 bits of the decisions; after the item before; after the
\* bit of the layout
DecisionItemStart ==
    With([p \in {DecodeUniversalLomont1(
                    DecodeUniversalLomont1(
                        DecodeUniversalLomont1(InitializeBitstream(callerSource), 6, 0)
                            .bitstream, 10, 0).bitstream, 2, 0).bitstream.position} |->
         IF StreamBit(callerSource, p) = 0 THEN p + 1 ELSE p + 2])
LiteralItemStart == ItemSkip(DecisionItemStart)
FirstItemStart == ItemSkip(LiteralItemStart) + 1
SecondItemStart == ItemSkip(FirstItemStart)
PairLayout == StreamBit(callerSource, ItemSkip(LiteralItemStart)) = 1

\* the sub-codec ReadLZCLItem made of the item at s
ItemRead(decoder, s) ==
    /\ decoder.codecType = BitsValue(callerSource, s, 2)
    /\ decoder.bitLength = ItemLength(s).value
    /\ OwnBitstream(decoder).position = ItemHeaderEnd(s)
    /\ OwnBitstream(decoder).data = callerSource

\* the last item DecompressLZCLStart reads, and the sub-codec made of it
LastItemStart == IF PairLayout THEN SecondItemStart ELSE FirstItemStart
LastItem == IF PairLayout THEN callerState.lengthCodec ELSE callerState.distanceCodec

\* C20 as stated: after ReadLZCLItem the parent cursor stands bit_length bits
\* past the end of the header of the sub-codec.
C20_AsStated ==
    (input.codec = "lzcl" /\ ret.op = "DecompressLZCLStart") =>
        callerState.bitstream.position
            = OwnBitstream(LastItem).position + LastItem.bitLength

\* C20, amended: ReadLZCLItem reads the 2 bits of codec_type and the
\* Lomont1(6,0) bit_length from the parent cursor, reads the header of the
\* codec through the sub-codec's own cursor, which starts at the end of the
\* bit_length field, and skips the parent by bit_length: after the read the
\* parent stands bit_length bits past the end of the bit_length field, and
\* the sub-codec's own cursor at the end of its header.
C20_ItemSkipped ==
    (input.codec = "lzcl" /\ ret.op = "DecompressLZCLStart") =>
        /\ ItemRead(callerState.decisionCodec, DecisionItemStart)
        /\ ItemRead(callerState.literalCodec, LiteralItemStart)
        /\ ItemRead(callerState.distanceCodec, FirstItemStart)
        /\ PairLayout => ItemRead(callerState.lengthCodec, SecondItemStart)
        /\ callerState.bitstream.position = ItemSkip(LastItemStart)

\* a started decoder of a stream with a Huffman literal item and a pair of
\* distance and length items
C20_Witness ==
    /\ input.codec = "lzcl"
    /\ ret.op = "DecompressLZCLStart"
    /\ PairLayout
    /\ callerState.literalCodec.codecType = 2
    /\ callerState.lengthCodec.codecType = 3
    /\ callerState.lengthCodec.bitLength > 0
    /\ callerState.bitstream.position = ItemSkip(SecondItemStart)
    /\ callerState.bitstream.position
           < OwnBitstream(callerState.lengthCodec).position + callerState.lengthCodec.bitLength

(***************************************************************************)
(* The Golomb decoder on its own: a GolombState_t with every parameter of  *)
(* a range, and two above 2^31, over bodies of every bit pattern.          *)
(***************************************************************************)
MaxParameter == 9    \* largest of the small Golomb parameters
GolombBits == 6      \* bits of a body

\* 2^31 + 1 and 2^31 + 3, as uint32_t
LargeParameters == {MinInt + 1, MinInt + 3}

\* bodies that hold 31 or 30 one bits in a row
LargeBodies ==
    {Ones(31) \o <<b>> : b \in {0, 1}}
    \cup {<<0>> \o Ones(31) \o <<b>> : b \in {0, 1}}
    \cup {<<0>> \o Ones(30) \o <<0, 1>>}

GolombInputs ==
    {[codec |-> "golomb", parameter |-> n, data |-> Pack(body) \o <<0>>] :
        n \in 1..MaxParameter, body \in [1..GolombBits -> {0, 1}]}
    \cup {[codec |-> "golomb", parameter |-> n, data |-> Pack(body) \o <<0, 0, 0, 0, 0>>] :
             n \in LargeParameters, body \in LargeBodies}

InitGolomb ==
    /\ input \in GolombInputs
    /\ callerSource = input.data
    /\ callerDestLength = 0
    /\ callerState = [bitstream |-> InitializeBitstream(callerSource),
                      parameter |-> input.parameter]
    /\ out = <<>>
    /\ calls = 0
    /\ ret = NoCall
    /\ size = NoCall
    /\ oneshot = NoOneShot
    /\ pc = "started"

\* the values a build gives 1U << BitsRequired(n)
TruncatedBuilds(n) == IF BitsRequired(n) >= 32 THEN ShiftBuilds ELSE {"defined"}

DecodeTruncatedCall ==
    /\ pc = "started"
    /\ input.codec = "golomb"
    /\ \E shiftBuild \in TruncatedBuilds(callerState.parameter) :
          \E r \in {DecodeTruncatedBuild(callerState.bitstream, callerState.parameter,
                                        shiftBuild)} :
              /\ callerState' = [callerState EXCEPT !.bitstream = r.bitstream]
              /\ ret' = [op |-> "DecodeTruncated", before |-> callerState,
                         shiftBuild |-> shiftBuild, value |-> r.value]
    /\ pc' = "ended"
    /\ UNCHANGED <<input, callerSource, callerDestLength, out, calls, size, oneshot>>

DecompressGolombSymbolCall ==
    /\ pc = "started"
    /\ input.codec = "golomb"
    /\ \E shiftBuild \in TruncatedBuilds(callerState.parameter) :
          \E r \in {DecompressGolombSymbolBuild(callerState, shiftBuild)} :
              /\ callerState' = r.state
              /\ ret' = [op |-> "DecompressGolombSymbol", before |-> callerState,
                         shiftBuild |-> shiftBuild, value |-> r.value]
    /\ pc' = "ended"
    /\ UNCHANGED <<input, callerSource, callerDestLength, out, calls, size, oneshot>>

NextGolomb ==
    \/ DecodeTruncatedCall
    \/ DecompressGolombSymbolCall

SpecGolomb == InitGolomb /\ [][NextGolomb]_vars

\* k = BitsRequired(n) and u = 2^k - n of a parameter n, a uint32_t
TruncatedBits(n) == IF n < 0 THEN 32 ELSE Width(n)
TruncatedUnused(n) == IF n < 0 THEN 0 - n ELSE (2 ^ Width(n)) - n

\* the truncated binary value of the bits at position p: the k-1 bits x when
\* x < u, and 2x + b - u with the next bit b when not; and where it ends
TruncatedAt(p, n) ==
    LET k == TruncatedBits(n)
        u == TruncatedUnused(n)
        x == BitsValue(callerSource, p, k - 1)
    IN  IF x < u THEN [value |-> x, after |-> p + k - 1]
        ELSE [value |-> Add32(Add32(x, x - u), StreamBit(callerSource, p + k - 1)),
              after |-> p + k]

RECURSIVE OnesFrom(_)
\* the number of 1 bits before the first 0 bit at or after position p
OnesFrom(p) == IF StreamBit(callerSource, p) = 1 THEN 1 + OnesFrom(p + 1) ELSE 0

\* DecodeTruncated returned that value, below n, and ended there
TruncatedAsClaimed ==
    ret.op = "DecodeTruncated" =>
        /\ ret.value = TruncatedAt(ret.before.bitstream.position, ret.before.parameter).value
        /\ callerState.bitstream.position
              = TruncatedAt(ret.before.bitstream.position, ret.before.parameter).after
        /\ Less32(ret.value, ret.before.parameter)
        /\ ~ Less32(ret.value, 0)

\* the codewords map one-to-one onto [0, n): the bits read are the codeword
\* of the value returned, and every value below n has a codeword
TruncatedOneToOne ==
    (ret.op = "DecodeTruncated" /\ ret.before.parameter > 0) =>
        /\ [i \in 1..(callerState.bitstream.position - ret.before.bitstream.position) |->
               StreamBit(callerSource, ret.before.bitstream.position + i - 1)]
              = EncodeTruncated(ret.value, ret.before.parameter)
        /\ \A r \in 0..(ret.before.parameter - 1) :
               DecodeTruncated(InitializeBitstream(
                                   Pack(EncodeTruncated(r, ret.before.parameter)) \o <<0>>),
                               ret.before.parameter).value = r

\* DecompressGolombSymbol returned q * n + r
GolombAsClaimed ==
    ret.op = "DecompressGolombSymbol" =>
        /\ ret.value =
              Add32(Mul32(OnesFrom(ret.before.bitstream.position), ret.before.parameter),
                    TruncatedAt(ret.before.bitstream.position
                                    + OnesFrom(ret.before.bitstream.position) + 1,
                                ret.before.parameter).value)
        /\ callerState.bitstream.position =
              TruncatedAt(ret.before.bitstream.position
                              + OnesFrom(ret.before.bitstream.position) + 1,
                          ret.before.parameter).after

\* C21 as stated: for every parameter n >= 1, with k = BitsRequired(n) and
\* u = 2^k - n, DecodeTruncated reads k-1 bits into x, returns x if x < u and
\* otherwise reads one more bit b and returns 2x + b - u; the result lies in
\* [0, n); DecompressGolombSymbol returns q * n + r.
C21_AsStated == TruncatedAsClaimed /\ GolombAsClaimed

\* C21, amended: the same for every parameter n with 1 <= n < 2^31, and the
\* valid codewords map one-to-one onto [0, n).
C21_TruncatedBinary ==
    (ret.op # "none" /\ ret.before.parameter > 0) =>
        (TruncatedAsClaimed /\ TruncatedOneToOne /\ GolombAsClaimed)

\* the symbol 2 * 5 + 4 of the parameter 5: 1 1 0, then x = 3 >= u = 3 and b = 1
C21_Witness ==
    /\ ret.op = "DecompressGolombSymbol"
    /\ ret.before.parameter = 5
    /\ BitsValue(callerSource, 0, 6) = 55
    /\ ret.value = 14
    /\ callerState.bitstream.position = 6

(***************************************************************************)
(* LZ77 and LZCL streams whose header byte length is the length of their   *)
(* items or falls short of it, and streams with a minimum length of 0.     *)
(***************************************************************************)
MaxCut == 2          \* how far byte_length falls short of the items

ItemsLength(items) == Len(LinearOutput(items, Len(items)))

ShortLengths(items) ==
    {n \in 0..ItemsLength(items) : n + MaxCut >= ItemsLength(items)}

\* item lists for a minimum length of 0, with copies of length 0
ZeroItemLists ==
    {<<[lit |-> 97], [length |-> 0, distance |-> 0], [lit |-> 98]>>,
     <<[length |-> 0, distance |-> 1], [lit |-> 97]>>,
     <<[lit |-> 97], [lit |-> 98], [length |-> 1, distance |-> 1]>>,
     <<[lit |-> 97], [length |-> 0, distance |-> 0], [length |-> 0, distance |-> 2],
       [length |-> 2, distance |-> 0]>>}

EndItemLists(minLength, lists) == IF minLength = 0 THEN ZeroItemLists ELSE lists

EndFormats == {LZ77Format, [LZ77Format EXCEPT !.minLength = 0]}

EndForms ==
    {[layout |-> layout, decisions |-> "bits", literals |-> "fixed",
      book |-> LetterBook, runParameter |-> 2, lengthParameter |-> 3,
      bitsPerToken |-> 4, minLength |-> minLength, maxDistance |-> 3] :
         layout \in {"token", "pair"}, minLength \in {0, 2}}

EndInputs ==
    UNION {UNION {{[codec |-> "lz77", format |-> format, items |-> items,
                    byteLength |-> n,
                    data |-> Pack(EncodeLZ77(n, format, items))] :
                       n \in ShortLengths(items)} :
                   items \in EndItemLists(format.minLength, ItemLists)} :
           format \in EndFormats}
    \cup
    UNION {UNION {{[codec |-> "lzcl", form |-> form, items |-> items,
                    byteLength |-> n,
                    data |-> Pack(EncodeLZCL(n, form, items)) \o <<0, 0>>] :
                       n \in ShortLengths(items)} :
                   items \in EndItemLists(form.minLength, LZCLItemLists)} :
           form \in EndForms}

InitEnds ==
    /\ input \in EndInputs
    /\ callerSource = input.data
    /\ callerDestLength \in DestLengths
    /\ callerState = IF input.codec = "lz77" THEN LZ77StateUnset ELSE LZCLStateUnset
    /\ out = <<>>
    /\ calls = 0
    /\ ret = NoCall
    /\ size = NoCall
    /\ oneshot = NoOneShot
    /\ pc = "idle"

NextEnds ==
    \/ DecompressLZ77Call
    \/ DecompressLZCLCall
    \/ DecompressLZ77StartCall
    \/ DecompressLZCLStartCall
    \/ DecompressLZ77BlockCall
    \/ DecompressLZCLBlockCall

SpecEnds == InitEnds /\ [][NextEnds]_vars

LZBlockOps == {"DecompressLZ77Block", "DecompressLZCLBlock"}
LZOneShotOps == {"DecompressLZ77", "DecompressLZCL"}
LZStarted == pc \in {"started", "ended", "over"}

RECURSIVE ItemsEnd(_, _, _, _)
\* the length of the items up to the first one that reaches byte length n
ItemsEnd(items, i, index, n) ==
    IF index >= n \/ i > Len(items) THEN index
    ELSE ItemsEnd(items, i + 1,
                  index + (IF IsLiteral(items[i]) THEN 1 ELSE items[i].length), n)

\* the streams whose copies the decoder reads as they were coded
ItemsDecoded == input.codec = "lz77" \/ input.form.layout = "pair"

\* C22 as stated: after the start and any block calls byte_index <=
\* byte_length; a block call returns END_TOKEN iff byte_index = byte_length;
\* the one-shot calls return the header byte length.
C22_AsStated ==
    /\ LZStarted => callerState.byteIndex <= callerState.byteLength
    /\ ret.op \in LZBlockOps =>
          (ret.value = CL_COMPRESSOR_END_TOKEN
              <=> ret.before.byteIndex = ret.before.byteLength)
    /\ oneshot.op \in LZOneShotOps => oneshot.value = oneshot.state.byteLength

\* C22, amended: byte_index counts the bytes stored; a block call returns
\* END_TOKEN iff byte_index >= byte_length, and leaves the state alone then;
\* byte_index exceeds byte_length only after a copy that started below it;
\* the one-shot calls return the final byte_index, which is the length of
\* the items up to the first that reaches byte_length.
C22_EndOfBlocks ==
    /\ LZStarted =>
          /\ callerState.byteLength = input.byteLength
          /\ callerState.byteIndex = Len(out)
          /\ callerState.byteIndex > callerState.byteLength =>
                /\ ret.op \in LZBlockOps
                /\ \/ ret.value = CL_COMPRESSOR_END_TOKEN
                   \/ ret.value >= 2 /\ ret.before.byteIndex < ret.before.byteLength
          /\ ItemsDecoded =>
                callerState.byteIndex
                    <= ItemsEnd(input.items, 1, 0, input.byteLength)
    /\ ret.op \in LZBlockOps =>
          /\ ret.value = CL_COMPRESSOR_END_TOKEN
                <=> ret.before.byteIndex >= ret.before.byteLength
          /\ ret.value = CL_COMPRESSOR_END_TOKEN => callerState = ret.before
          /\ ret.value # CL_COMPRESSOR_END_TOKEN =>
                /\ callerState.byteIndex = ret.before.byteIndex + ret.value
                /\ Len(ret.written) = ret.value
    /\ oneshot.op \in LZOneShotOps =>
          /\ oneshot.state.byteLength = input.byteLength
          /\ oneshot.value = oneshot.state.byteIndex
          /\ oneshot.value >= input.byteLength
          /\ ItemsDecoded =>
                oneshot.value = ItemsEnd(input.items, 1, 0, input.byteLength)

\* a, b, c and a copy of 4 bytes under a byte length of 5: DecompressLZ77
\* returns 7
C22_Witness ==
    /\ oneshot.op = "DecompressLZ77"
    /\ input.byteLength = 5
    /\ input.items = Literals(3) \o <<[length |-> 4, distance |-> 1]>>
    /\ oneshot.value = 7

\* a block call made before END_TOKEN was returned: one turn of the loop
\* while (symbolCount != CL_COMPRESSOR_END_TOKEN) symbolCount = Block(&state);
LoopTurn == pc = "started" /\ calls' = calls + 1

\* The loop goes on while it has not seen END_TOKEN: weak fairness of the
\* block calls made at pc = "started", which are enabled exactly there (a
\* block call has no other condition and always returns).
LoopRuns == []<>(pc # "started") \/ []<><<LoopTurn>>_vars

SpecEndsFair == SpecEnds /\ LoopRuns

MinLengthOf == IF input.codec = "lz77" THEN input.format.minLength ELSE input.form.minLength

IsZeroCopy(item) == ~ IsLiteral(item) /\ item.length = 0
ZeroCopies(items) == Len(SelectSeq(items, IsZeroCopy))

\* the block calls made that did not return END_TOKEN
BlockCallsBeforeEnd ==
    calls - (CASE pc = "ended" -> 1 [] pc = "over" -> 2 [] OTHER -> 0)

\* C23 as stated: each block call made while byte_index < byte_length
\* returns a count >= 1 and advances byte_index by it, for every header,
\* min_length = 0 included, so END_TOKEN is reached after at most byte_length
\* block calls.
C23_AsStated ==
    /\ (ret.op \in LZBlockOps /\ ret.before.byteIndex < ret.before.byteLength) =>
          /\ ret.value >= 1
          /\ callerState.byteIndex = ret.before.byteIndex + ret.value
    /\ LZStarted => BlockCallsBeforeEnd <= callerState.byteLength

\* each block call made below byte_length returns the length of its item
\* and advances byte_index by it; the count is >= 1 when min_length >= 1,
\* and 0 for a copy of length 0, which moves the cursor only
BlockCallsAdvance ==
    /\ (ret.op \in LZBlockOps /\ ret.before.byteIndex < ret.before.byteLength) =>
          /\ ret.value # CL_COMPRESSOR_END_TOKEN
          /\ ret.value >= 0
          /\ callerState.byteIndex = ret.before.byteIndex + ret.value
          /\ MinLengthOf >= 1 => ret.value >= 1
          /\ ret.value = 0 =>
                /\ MinLengthOf = 0
                /\ ret.written = <<>>
                /\ callerState # ret.before
    /\ LZStarted =>
          /\ MinLengthOf >= 1 => BlockCallsBeforeEnd <= callerState.byteLength
          /\ ItemsDecoded =>
                /\ BlockCallsBeforeEnd <= Len(input.items)
                /\ BlockCallsBeforeEnd
                      <= callerState.byteLength + ZeroCopies(input.items)

\* C23, amended: the block calls advance as above, and the block calls of a
\* started decoder, which are the loop of the one-shot calls, reach END_TOKEN.
C23_Terminates ==
    /\ [] BlockCallsAdvance
    /\ (pc = "started") ~> (pc = "ended")

\* a, two copies of length 0 and a copy of 2 bytes under a byte length of 3:
\* END_TOKEN comes with the fifth block call
C23_Witness ==
    /\ pc = "ended"
    /\ input.codec = "lz77"
    /\ input.byteLength = 3
    /\ Len(input.items) = 4
    /\ ZeroCopies(input.items) = 2
    /\ calls = 5
    /\ callerState.byteIndex = 3

====
